---- MODULE Spec2Model ----
(***************************************************************************)
(* Model of the archiver repository: the buffered primitive reader         *)
(* (ArchiveReader) of crates/rar, the signature search of Archive::parse   *)
(* and the modern / legacy header parsers built on it.                     *)
(*                                                                         *)
(* Conventions.  A byte is a number in 0..255.  File offsets and buffer    *)
(* indexes are 0-based as in the source; TLA+ sequences are 1-based, so    *)
(* the byte at offset o of file f is f[o + 1].  A u16/u32/u64 value is the *)
(* set of the positions of its 1 bits (bit 0 is the least significant),    *)
(* because the checker's integers are 32 bits wide.                        *)
(***************************************************************************)
EXTENDS Integers, Sequences, FiniteSets, TLC

(***************************************************************************)
(* Program constants.                                                      *)
(***************************************************************************)
BUFFER_SIZE == 1000

SIGNATURE_SIZE == 7

GENERAL_DIR_SIZE_KNOWN == 12

GENERAL_DIR_SIG_5_0 == <<82, 97, 114, 33, 26, 7, 1, 0>>

GENERAL_DIR_SIG_4_0 == <<82, 97, 114, 33, 26, 7, 0>>

(***************************************************************************)
(* Arithmetic helpers.                                                     *)
(***************************************************************************)
Min(a, b) == IF a <= b THEN a ELSE b

Pow2(n) == 2 ^ n

\* The set of 1 bits of the w-bit number n.
Bits(n, w) == {i \in 0..(w - 1) : (n \div Pow2(i)) % 2 = 1}

\* (value as u64) << shift, bits shifted out of the 64-bit word are lost.
Shl(bits, shift) == {i + shift : i \in {j \in bits : j + shift <= 63}}

RECURSIVE ToNat(_)
\* The number a bit set stands for (used only where it is below 2^31).
ToNat(bits) ==
    IF bits = {} THEN 0
    ELSE LET b == CHOOSE x \in bits : TRUE
         IN  Pow2(b) + ToNat(bits \ {b})

\* True when the value fits the checker's integers.
Small(bits) == \A b \in bits : b <= 30

\* The longest chunk the model reads as one get_chunk_amount.
MaxChunk == 4096

\* True when a chunk of that many bytes is read within the model.
Readable(bits) == Small(bits) /\ ToNat(bits) <= MaxChunk

(***************************************************************************)
(* bytes_to_u16 / bytes_to_u32 / bytes_to_u64: little-endian assembly.     *)
(***************************************************************************)
bytes_to_u16(bytes) ==
    Shl(Bits(bytes[2], 8), 8) \cup Bits(bytes[1], 8)

\* Mutant: big-endian assembly.
bytes_to_u32_be(bytes) ==
    Shl(Bits(bytes[1], 8), 24) \cup Shl(Bits(bytes[2], 8), 16) \cup
    Shl(Bits(bytes[3], 8), 8) \cup Bits(bytes[4], 8)

bytes_to_u32(bytes) ==
    Shl(Bits(bytes[4], 8), 24) \cup Shl(Bits(bytes[3], 8), 16) \cup
    Shl(Bits(bytes[2], 8), 8) \cup Bits(bytes[1], 8)

bytes_to_u64(bytes) ==
    Shl(Bits(bytes[8], 8), 56) \cup Shl(Bits(bytes[7], 8), 48) \cup
    Shl(Bits(bytes[6], 8), 40) \cup Shl(Bits(bytes[5], 8), 32) \cup
    Shl(Bits(bytes[4], 8), 24) \cup Shl(Bits(bytes[3], 8), 16) \cup
    Shl(Bits(bytes[2], 8), 8) \cup Bits(bytes[1], 8)

\* value >> 7 == 1
is_cont_bit(value) == value \div 128 = 1

(***************************************************************************)
(* value << shift_amount on u64.  A shift of 64 or more panics in a build  *)
(* with overflow checks and uses shift_amount & 63 in one without.         *)
(***************************************************************************)
ShiftOverflows(shift_amount, oc) == shift_amount >= 64 /\ oc

ShlWrapping(bits, shift_amount) == Shl(bits, shift_amount % 64)

(***************************************************************************)
(* extract_vint(buffer): (len, value) of the vint at the start of a slice. *)
(* The slice &buffer[0..len] panics when no byte ends the encoding.        *)
(***************************************************************************)
RECURSIVE take_while_cont(_, _)
take_while_cont(buf, i) ==
    IF i <= Len(buf) /\ is_cont_bit(buf[i]) THEN take_while_cont(buf, i + 1)
    ELSE i - 1

RECURSIVE extract_vint_loop(_, _, _, _, _, _)
extract_vint_loop(buf, len, i, shift_amount, decoded_value, oc) ==
    IF i > len THEN [status |-> "ok", value |-> decoded_value]
    ELSE IF ShiftOverflows(shift_amount, oc)
         THEN [status |-> "panic", value |-> decoded_value]
         ELSE LET value == decoded_value \cup
                           ShlWrapping(Bits(buf[i] % 128, 7), shift_amount)
              IN  IF buf[i] \div 128 = 1
                  THEN extract_vint_loop(buf, len, i + 1, shift_amount + 7, value, oc)
                  ELSE [status |-> "ok", value |-> value]

extract_vint(buf, oc) ==
    LET len == take_while_cont(buf, 1) + 1
    IN  IF len > Len(buf)
        THEN [status |-> "panic", len |-> len, value |-> {}]
        ELSE LET r == extract_vint_loop(buf, len, 1, 0, {}, oc)
             IN  [status |-> r.status, len |-> len, value |-> r.value]

(***************************************************************************)
(* The byte source (tokio File over a regular file) and ArchiveReader.     *)
(* A reader value R is [fpos, buffer, index, last_read_amount]: fpos is    *)
(* the stream position of the file, buffer the caller's read window.       *)
(***************************************************************************)
\* file.read(&mut buffer): fills a prefix of the buffer, the rest is kept.
FileReadCount(f, fpos) ==
    IF fpos >= Len(f) THEN 0 ELSE Min(BUFFER_SIZE, Len(f) - fpos)

FileRead(f, fpos, buffer) ==
    LET n == FileReadCount(f, fpos)
    IN  [i \in 1..BUFFER_SIZE |-> IF i <= n THEN f[fpos + i] ELSE buffer[i]]

\* ArchiveReader::init
init_reader ==
    [fpos |-> 0, buffer |-> [i \in 1..BUFFER_SIZE |-> 0],
     index |-> 0, last_read_amount |-> 0]

\* ArchiveReader::get_seek_position (stream position + index - last read)
get_seek_position(R) == R.fpos + R.index - R.last_read_amount

\* ArchiveReader::seek_next
seek_next(R, f) ==
    [fpos |-> R.fpos + FileReadCount(f, R.fpos),
     buffer |-> FileRead(f, R.fpos, R.buffer),
     index |-> 0,
     last_read_amount |-> FileReadCount(f, R.fpos)]

\* Mutant: refills without seeking back to the index.
seek_to_index_noseek(R, f) ==
    IF R.last_read_amount # BUFFER_SIZE THEN R ELSE seek_next(R, f)

\* ArchiveReader::seek_to_index
seek_to_index(R, f) ==
    IF R.last_read_amount # BUFFER_SIZE THEN R
    ELSE seek_next([R EXCEPT !.fpos = R.fpos + (R.index - BUFFER_SIZE)], f)

\* ArchiveReader::seek_to: the stream is moved and the index reset; the
\* window and last_read_amount stay as they are.
seek_to(R, value) == [R EXCEPT !.fpos = value, !.index = 0]

\* ArchiveReader::skip::<COUNT>
skip(R, COUNT) == [R EXCEPT !.index = R.index + COUNT]

\* Mutant: the window is never refilled.
get_next_chunk_norefill(R, f, COUNT) ==
    IF R.index + COUNT > BUFFER_SIZE
    THEN [status |-> "panic", r |-> R, v |-> <<>>]
    ELSE [status |-> "ok", r |-> [R EXCEPT !.index = R.index + COUNT],
          v |-> SubSeq(R.buffer, R.index + 1, R.index + COUNT)]

\* ArchiveReader::get_next_chunk::<COUNT>; the slice panics past the buffer.
get_next_chunk(R, f, COUNT) ==
    LET R1 == IF R.index + COUNT >= BUFFER_SIZE THEN seek_to_index(R, f) ELSE R
    IN  IF R1.index + COUNT > BUFFER_SIZE
        THEN [status |-> "panic", r |-> R1, v |-> <<>>]
        ELSE [status |-> "ok",
              r |-> [R1 EXCEPT !.index = R1.index + COUNT],
              v |-> SubSeq(R1.buffer, R1.index + 1, R1.index + COUNT)]

RECURSIVE get_chunk_amount_loop(_, _, _, _)
get_chunk_amount_loop(R, f, size, filled) ==
    IF size = 0 THEN [status |-> "ok", r |-> R, v |-> filled]
    ELSE IF R.index + size >= BUFFER_SIZE
         THEN IF R.index > BUFFER_SIZE
              THEN [status |-> "panic", r |-> R, v |-> filled]
              ELSE get_chunk_amount_loop(
                       seek_next(R, f), f, size - (BUFFER_SIZE - R.index),
                       filled \o SubSeq(R.buffer, R.index + 1, BUFFER_SIZE))
         ELSE [status |-> "ok",
               r |-> [R EXCEPT !.index = R.index + size],
               v |-> filled \o SubSeq(R.buffer, R.index + 1, R.index + size)]

\* Mutant: takes what the current window holds and never refills.
get_chunk_amount_once(R, f, size) ==
    [status |-> "ok",
     r |-> [R EXCEPT !.index = Min(R.index + size, BUFFER_SIZE)],
     v |-> SubSeq(R.buffer, R.index + 1, Min(R.index + size, BUFFER_SIZE))]

\* ArchiveReader::get_chunk_amount
get_chunk_amount(R, f, size) == get_chunk_amount_loop(R, f, size, <<>>)

\* ArchiveReader::next_u8 / next_u16 / next_u32 / next_u64
next_u8(R, f) ==
    LET c == get_next_chunk(R, f, 1)
    IN  [status |-> c.status, r |-> c.r,
         v |-> IF c.status = "ok" THEN c.v[1] ELSE 0]

next_u16(R, f) ==
    LET c == get_next_chunk(R, f, 2)
    IN  [status |-> c.status, r |-> c.r,
         v |-> IF c.status = "ok" THEN bytes_to_u16(c.v) ELSE {}]

next_u32(R, f) ==
    LET c == get_next_chunk(R, f, 4)
    IN  [status |-> c.status, r |-> c.r,
         v |-> IF c.status = "ok" THEN bytes_to_u32(c.v) ELSE {}]

next_u64(R, f) ==
    LET c == get_next_chunk(R, f, 8)
    IN  [status |-> c.status, r |-> c.r,
         v |-> IF c.status = "ok" THEN bytes_to_u64(c.v) ELSE {}]

RECURSIVE next_vint_loop(_, _, _, _, _)
next_vint_loop(R, f, shift_amount, decoded_value, oc) ==
    LET c == get_next_chunk(R, f, 1)
    IN  IF c.status # "ok" THEN [status |-> c.status, r |-> c.r, v |-> decoded_value]
        ELSE IF ShiftOverflows(shift_amount, oc)
             THEN [status |-> "panic", r |-> c.r, v |-> decoded_value]
             ELSE LET value == decoded_value \cup
                               ShlWrapping(Bits(c.v[1] % 128, 7), shift_amount)
                  IN  IF c.v[1] \div 128 = 1
                      THEN next_vint_loop(c.r, f, shift_amount + 7, value, oc)
                      ELSE [status |-> "ok", r |-> c.r, v |-> value]

RECURSIVE next_vint_loop_shift8(_, _, _, _, _)
next_vint_loop_shift8(R, f, shift_amount, decoded_value, oc) ==
    LET c == get_next_chunk(R, f, 1)
    IN  IF c.status # "ok" THEN [status |-> c.status, r |-> c.r, v |-> decoded_value]
        ELSE LET value == decoded_value \cup
                          ShlWrapping(Bits(c.v[1] % 128, 7), shift_amount)
             IN  IF c.v[1] \div 128 = 1
                 THEN next_vint_loop_shift8(c.r, f, shift_amount + 8, value, oc)
                 ELSE [status |-> "ok", r |-> c.r, v |-> value]

\* Mutant: the shift grows by 8 instead of 7.
next_vint_shift8(R, f, oc) == next_vint_loop_shift8(R, f, 0, {}, oc)

\* ArchiveReader::next_vint
next_vint(R, f, oc) == next_vint_loop(R, f, 0, {}, oc)

\* True when sig begins at buffer index at (0-based) and lies inside it.
SigAt(buffer, at, sig) ==
    /\ at + Len(sig) <= BUFFER_SIZE
    /\ \A k \in 1..Len(sig) : buffer[at + k] = sig[k]

\* ArchiveReader::find_signature_pos: windows(7) zipped with windows(8), so
\* the scan stops with the shorter iterator.  -1 stands for None.
find_signature_pos(buffer, index) ==
    LET last == BUFFER_SIZE - Len(GENERAL_DIR_SIG_5_0)
        hits == {at \in index..last :
                    SigAt(buffer, at, GENERAL_DIR_SIG_4_0) \/
                    SigAt(buffer, at, GENERAL_DIR_SIG_5_0)}
    IN  IF hits = {} THEN -1
        ELSE CHOOSE at \in hits : \A other \in hits : at <= other

(***************************************************************************)
(* Helpers of the header parsers.                                          *)
(***************************************************************************)
\* The result of a parser that stops with an error value or a panic.
Stop(status, R) == [status |-> status, r |-> R, v |-> <<>>]

Ok(R, v) == [status |-> "ok", r |-> R, v |-> v]

\* Error::InvalidBitFlag { name, flag }: the name is part of the status, the
\* flag is the value the result carries.
InvalidBitFlag(status, R, flag) == [status |-> status, r |-> R, v |-> <<flag>>]

\* The ? operator (and a panic): a result that is not ok ends the parser,
\* an ok one is handed to the rest of it.
Try(res, rest(_)) == IF res.status # "ok" THEN Stop(res.status, res.r) ELSE rest(res)

\* "value as u8"
AsU8(bits) == ToNat(bits \cap 0..7)

\* "value as usize" for the values the model's integers can hold.
AsUsize(bits) == ToNat(bits)

Cont(b) == b >= 128 /\ b <= 191

\* The number of continuation bytes that follow the leading byte b, -1 if
\* b cannot lead a character.
Following(b) ==
    IF b <= 127 THEN 0
    ELSE IF b >= 194 /\ b <= 223 THEN 1
    ELSE IF b >= 224 /\ b <= 239 THEN 2
    ELSE IF b >= 240 /\ b <= 244 THEN 3
    ELSE -1

\* String::from_utf8 accepts the bytes from position i on: the first byte
\* leads a character, every leading byte is followed by exactly its
\* continuation bytes, and the first of them is in the range that excludes
\* overlong forms, surrogates and values above 0x10FFFF.
IsUtf8(bytes, i) ==
    /\ i <= Len(bytes) => ~Cont(bytes[i])
    /\ \A j \in i..Len(bytes) :
          Cont(bytes[j]) \/
             /\ Following(bytes[j]) >= 0
             /\ j + Following(bytes[j]) <= Len(bytes)
             /\ \A n \in 1..Following(bytes[j]) : Cont(bytes[j + n])
             /\ j + Following(bytes[j]) < Len(bytes)
                   => ~Cont(bytes[j + Following(bytes[j]) + 1])
             /\ (bytes[j] = 224 => bytes[j + 1] >= 160)
             /\ (bytes[j] = 237 => bytes[j + 1] <= 159)
             /\ (bytes[j] = 240 => bytes[j + 1] >= 144)
             /\ (bytes[j] = 244 => bytes[j + 1] <= 143)

(***************************************************************************)
(* Bit sets of the modern format (bit positions).                          *)
(***************************************************************************)
\* HeaderFlags: EXTRA_AREA 0x01, DATA_AREA 0x02, ... PRESERVE 0x40
HeaderFlags_EXTRA_AREA == 0

HeaderFlags_DATA_AREA == 1

HeaderFlags_all == 0..6

\* ArchiveFlags: VOLUME, VOLUME_NUMBER, SOLID, RECOVERY, LOCKED
ArchiveFlags_VOLUME_NUMBER == 1

\* Mutant: every bit of the archive flags is accepted.
ArchiveFlags_any == 0..63

ArchiveFlags_all == 0..4

\* EndOfArchiveFlags: VOLUME
EndOfArchiveFlags_all == {0}

\* FileFlags: DIR_FILE_SYS_OBJ, UNIX_TIME, CRC32_PRESENT, UNPACK_SIZE_UNKNOWN
FileFlags_UNIX_TIME == 1

FileFlags_CRC32_PRESENT == 2

FileFlags_all == 0..3

\* OperatingSystem: WINDOWS 0b01, UNIX 0b10
OperatingSystem_all == 0..1

\* FileTimeFlags: FORMAT_UNIX_TIME, MODIFICATION, CREATION, LAST_ACCESS,
\* UNIX_TIME_W_NANOSECOND
FileTimeFlags_FORMAT_UNIX_TIME == 0

FileTimeFlags_MODIFICATION == 1

FileTimeFlags_CREATION == 2

FileTimeFlags_LAST_ACCESS == 3

FileTimeFlags_UNIX_TIME_W_NANOSECOND == 4

FileTimeFlags_all == 0..4

\* HeaderType: MainArchive = 1, File, Service, ArchiveEncryption, EndOfArchive
HeaderType_MainArchive == 1

HeaderType_File == 2

HeaderType_Service == 3

HeaderType_ArchiveEncryption == 4

HeaderType_EndOfArchive == 5

HeaderType_all == 1..5

(***************************************************************************)
(* GeneralHeader::parse (header/mod.rs 204-226).                           *)
(***************************************************************************)
RECURSIVE read_values(_, _, _, _, _)

\* One field of the given kind.
read_value(R, f, oc, kind) ==
    CASE kind = "u8" -> next_u8(R, f)
      [] kind = "u16" -> next_u16(R, f)
      [] kind = "u32" -> next_u32(R, f)
      [] kind = "u64" -> next_u64(R, f)
      [] OTHER -> next_vint(R, f, oc)

\* The ? on a field: a failure ends the reads, a value is kept.
then_values(x, f, oc, kinds, acc) ==
    IF x.status # "ok" THEN Stop(x.status, x.r)
    ELSE read_values(x.r, f, oc, kinds, Append(acc, x.v))

\* Consecutive fields of the given kinds, each read with ?: [status, r, v].
read_values(R, f, oc, kinds, acc) ==
    IF kinds = <<>> THEN Ok(R, acc)
    ELSE then_values(read_value(R, f, oc, kinds[1]), f, oc, Tail(kinds), acc)

\* One optional field.
Opt(present, kind) == IF present THEN <<kind>> ELSE <<>>

\* Mutant: the data size is read before the extra-area size.
general_sizes_swapped(head, flags, sizes) ==
    IF sizes.status # "ok" THEN [status |-> sizes.status, r |-> sizes.r, v |-> <<>>]
    ELSE [status |-> "ok", r |-> sizes.r,
          v |-> [crc32 |-> head[1], size |-> head[2],
                 type_of |-> ToNat(head[3] \cap 0..7), flags |-> flags,
                 extra_area_size |-> IF 0 \in flags
                                     THEN sizes.v[Len(sizes.v)] ELSE {},
                 data_size |-> IF 1 \in flags THEN sizes.v[1] ELSE {}]]

\* extra_area_size and data_size have been read (or not).
general_sizes(head, flags, sizes) ==
    IF sizes.status # "ok" THEN Stop(sizes.status, sizes.r) ELSE
    Ok(sizes.r,
       [crc32 |-> head[1], size |-> head[2], type_of |-> AsU8(head[3]),
        flags |-> flags,
        extra_area_size |-> IF HeaderFlags_EXTRA_AREA \in flags
                            THEN sizes.v[1] ELSE {},
        data_size |-> IF HeaderFlags_DATA_AREA \in flags
                      THEN sizes.v[Len(sizes.v)] ELSE {}])

\* HeaderFlags::from_bits(..).expect(..), then the two optional sizes.
general_flags(head, flags, f, oc) ==
    IF flags.status # "ok" THEN Stop(flags.status, flags.r) ELSE
    IF ~(flags.v \subseteq HeaderFlags_all) THEN Stop("panic", flags.r) ELSE
    general_sizes(head, flags.v,
        read_values(flags.r, f, oc,
                    Opt(HeaderFlags_EXTRA_AREA \in flags.v, "vint")
                    \o Opt(HeaderFlags_DATA_AREA \in flags.v, "vint"), <<>>))

\* HeaderType::try_from(type as u8)?, then the flags.
general_type(head, f, oc) ==
    IF head.status # "ok" THEN Stop(head.status, head.r) ELSE
    IF AsU8(head.v[3]) \notin HeaderType_all
    THEN Stop("Err(NumEnumHeaderType)", head.r) ELSE
    general_flags(head.v, next_vint(head.r, f, oc), f, oc)

\* crc32, size, type, flags, extra-area size and data size, in this order.
GeneralHeader_parse(R, f, oc) ==
    general_type(read_values(R, f, oc, <<"u32", "vint", "vint">>, <<>>), f, oc)

(***************************************************************************)
(* MainArchiveHeader::parse (header/main_archive.rs 21-50).                *)
(***************************************************************************)
main_done(general_header, flags, volume_number, extra_area) ==
    IF extra_area.status # "ok" THEN Stop(extra_area.status, extra_area.r) ELSE
    Ok(extra_area.r,
       [general_header |-> general_header,
        archive_flags |-> flags,
        volume_number |-> IF ArchiveFlags_VOLUME_NUMBER \in flags
                          THEN <<volume_number>> ELSE <<>>,
        extra_area |-> IF HeaderFlags_EXTRA_AREA \in general_header.flags
                       THEN <<extra_area.v>> ELSE <<>>])

main_extra_area(general_header, flags, volume_number, f) ==
    IF volume_number.status # "ok"
    THEN Stop(volume_number.status, volume_number.r) ELSE
    IF ~Readable(general_header.extra_area_size)
    THEN Stop("out_of_model", volume_number.r) ELSE
    main_done(general_header, flags, volume_number.v,
        IF HeaderFlags_EXTRA_AREA \in general_header.flags
        THEN get_chunk_amount(volume_number.r, f,
                              AsUsize(general_header.extra_area_size))
        ELSE Ok(volume_number.r, <<>>))

main_volume_number(general_header, value, f, oc) ==
    IF value.status # "ok" THEN Stop(value.status, value.r) ELSE
    IF ~(value.v \subseteq ArchiveFlags_all)
    THEN InvalidBitFlag("Err(InvalidBitFlag Archive)", value.r, value.v) ELSE
    main_extra_area(general_header, value.v,
        IF ArchiveFlags_VOLUME_NUMBER \in value.v
        THEN next_vint(value.r, f, oc) ELSE Ok(value.r, {}), f)

\* The flags, the volume number when flagged, the extra area when flagged.
MainArchiveHeader_parse(general_header, R, f, oc) ==
    main_volume_number(general_header, next_vint(R, f, oc), f, oc)

(***************************************************************************)
(* EndOfArchiveHeader::parse (header/end_of_archive.rs 14-32).             *)
(***************************************************************************)
end_flags(general_header, value) ==
    IF value.status # "ok" THEN Stop(value.status, value.r) ELSE
    IF ~(value.v \subseteq EndOfArchiveFlags_all)
    THEN InvalidBitFlag("Err(InvalidBitFlag End Of Archive)", value.r, value.v) ELSE
    Ok(value.r, [general_header |-> general_header, archive_flags |-> value.v])

EndOfArchiveHeader_parse(general_header, R, f, oc) ==
    end_flags(general_header, next_vint(R, f, oc))

(***************************************************************************)
(* 64-bit arithmetic on bit sets, for the Windows file-time conversion     *)
(* ((ticks / 10_000_000) - 11_644_473_600) as u32.                         *)
(***************************************************************************)
TICKS_PER_SECOND == 10000000

\* 11_644_473_600 = 0x2_B610_9100
EPOCH_DIFFERENCE ==
    Bits(37120, 16) \cup Shl(Bits(46608, 16), 16) \cup Shl(Bits(2, 2), 32)

\* The four bits of a 64-bit value from bit 4 * i.
Nibble(bits, i) ==
    (IF 4 * i \in bits THEN 1 ELSE 0) + (IF 4 * i + 1 \in bits THEN 2 ELSE 0)
    + (IF 4 * i + 2 \in bits THEN 4 ELSE 0) + (IF 4 * i + 3 \in bits THEN 8 ELSE 0)

RECURSIVE DivLoop(_, _, _, _, _)
\* Long division of a 64-bit value by a divisor below 2^27, four bits at
\* a time from the top.
DivLoop(bits, d, i, rem, quot) ==
    IF i < 0 THEN quot
    ELSE DivLoop(bits, d, i - 1, (16 * rem + Nibble(bits, i)) % d,
                 quot \cup Shl(Bits((16 * rem + Nibble(bits, i)) \div d, 4), 4 * i))

DivU64(bits, d) == DivLoop(bits, d, 15, 0, {})

\* a < b for 64-bit values: the highest bit in which they differ is b's.
LessU64(a, b) ==
    LET d == (a \ b) \cup (b \ a)
    IN  d # {} /\ (CHOOSE m \in d : \A x \in d : x <= m) \in b

\* a - b modulo 2^64 with the final borrow: [bits, borrow].  Bit i of the
\* difference is a_i xor b_i xor (the borrow into bit i).
SubU64(a, b) ==
    [bits |-> {i \in 0..63 :
                  ((i \in a) # (i \in b))
                      # LessU64(a \cap 0..(i - 1), b \cap 0..(i - 1))},
     borrow |-> IF LessU64(a, b) THEN 1 ELSE 0]

\* The conversion; the subtraction overflows for ticks before 1970.
filetime_to_unix(bytes, oc) ==
    LET d == SubU64(DivU64(bytes_to_u64(bytes), TICKS_PER_SECOND), EPOCH_DIFFERENCE)
    IN  IF d.borrow = 1 /\ oc THEN [status |-> "panic", v |-> {}]
        ELSE [status |-> "ok", v |-> d.bits \cap 0..31]

(***************************************************************************)
(* parse_extra_area (header/file.rs 261-363).  Slices past the end of the  *)
(* extra area panic.                                                       *)
(***************************************************************************)
Slice(bytes, from, to) == SubSeq(bytes, from + 1, to)

\* Mutant: every slot is read as a 4-byte Unix time.
read_file_time_unix(extra_area, idx, flags, present, oc) ==
    IF present \notin flags THEN [status |-> "ok", index |-> idx, v |-> <<>>]
    ELSE IF idx + 4 > Len(extra_area)
         THEN [status |-> "panic", index |-> idx, v |-> <<>>]
         ELSE [status |-> "ok", index |-> idx + 4,
               v |-> <<bytes_to_u32(Slice(extra_area, idx, idx + 4))>>]

\* One timestamp of a Time record at index: [status, index, v].
read_file_time(extra_area, idx, flags, present, oc) ==
    IF present \notin flags THEN [status |-> "ok", index |-> idx, v |-> <<>>]
    ELSE IF FileTimeFlags_FORMAT_UNIX_TIME \in flags
         THEN IF idx + 4 > Len(extra_area)
              THEN [status |-> "panic", index |-> idx, v |-> <<>>]
              ELSE [status |-> "ok", index |-> idx + 4,
                    v |-> <<bytes_to_u32(Slice(extra_area, idx, idx + 4))>>]
         ELSE IF idx + 8 > Len(extra_area)
              THEN [status |-> "panic", index |-> idx, v |-> <<>>]
              ELSE LET t == filetime_to_unix(Slice(extra_area, idx, idx + 8), oc)
                   IN  [status |-> t.status, index |-> idx + 8, v |-> <<t.v>>]

\* The three "Unimplemented Nanosecond Flag" reads: the first two advance
\* the index by 4, the third only reads.
NanoGate ==
    {FileTimeFlags_FORMAT_UNIX_TIME, FileTimeFlags_MODIFICATION,
     FileTimeFlags_UNIX_TIME_W_NANOSECOND}

read_nano_suffixes(extra_area, idx, flags) ==
    IF ~(NanoGate \subseteq flags) THEN [status |-> "ok", index |-> idx]
    ELSE IF idx + 12 > Len(extra_area)
         THEN [status |-> "panic", index |-> idx]
         ELSE [status |-> "ok", index |-> idx + 8]

\* A result of the extra-area parsers, which hold no reader: [status, v].
Failed(status) == [status |-> status, v |-> <<>>]

TryArea(res, rest(_)) ==
    IF res.status # "ok"
    THEN [status |-> res.status, v |-> IF "v" \in DOMAIN res THEN res.v ELSE <<>>]
    ELSE rest(res)

\* The Time record (type 3) whose data starts at index.
parse_file_time(extra_area, idx, oc) ==
    TryArea(extract_vint(Slice(extra_area, idx, Len(extra_area)), oc), LAMBDA fl :
        IF ~(fl.value \subseteq FileTimeFlags_all)
        THEN [status |-> "Err(InvalidBitFlag File Time)", v |-> <<fl.value>>]
        ELSE
    TryArea(read_file_time(extra_area, idx + fl.len, fl.value,
                           FileTimeFlags_MODIFICATION, oc), LAMBDA m :
    TryArea(read_file_time(extra_area, m.index, fl.value,
                           FileTimeFlags_CREATION, oc), LAMBDA c :
    TryArea(read_file_time(extra_area, c.index, fl.value,
                           FileTimeFlags_LAST_ACCESS, oc), LAMBDA a :
    TryArea(read_nano_suffixes(extra_area, a.index, fl.value), LAMBDA n :
        [status |-> "ok",
         v |-> <<[modification |-> m.v, creation |-> c.v,
                  last_access |-> a.v]>>])))))

FILE_TIME_RECORD == 3

RECURSIVE parse_extra_area_loop(_, _, _, _)

\* The record of type type_of whose data is extra_area[at..data_end_index],
\* then the rest of the loop.
extra_record(extra_area, at, data_end_index, type_of, items, oc) ==
    IF data_end_index < at \/ data_end_index > Len(extra_area)
    THEN Failed("panic") ELSE
    TryArea(IF type_of = Bits(FILE_TIME_RECORD, 8)
            THEN parse_file_time(extra_area, at, oc)
            ELSE [status |-> "ok", v |-> <<>>], LAMBDA rec :
        parse_extra_area_loop(extra_area, data_end_index, items \o rec.v, oc))

\* Mutant: the record size is counted from the data, not from the type.
parse_extra_area_loop_from_data(extra_area, idx, items, oc) ==
    IF ~(idx < Len(extra_area)) THEN [status |-> "ok", v |-> items] ELSE
    TryArea(extract_vint(Slice(extra_area, idx, Len(extra_area)), oc), LAMBDA size :
    TryArea(extract_vint(Slice(extra_area, idx + size.len, Len(extra_area)), oc),
            LAMBDA type_of :
        IF ~Small(size.value) THEN Failed("out_of_model") ELSE
        extra_record(extra_area, idx + size.len + type_of.len,
                     idx + size.len + type_of.len + AsUsize(size.value),
                     type_of.value, items, oc)))

parse_extra_area_loop(extra_area, idx, items, oc) ==
    IF ~(idx < Len(extra_area)) THEN [status |-> "ok", v |-> items] ELSE
    TryArea(extract_vint(Slice(extra_area, idx, Len(extra_area)), oc), LAMBDA size :
    TryArea(extract_vint(Slice(extra_area, idx + size.len, Len(extra_area)), oc),
            LAMBDA type_of :
        IF ~Small(size.value) THEN Failed("out_of_model") ELSE
        extra_record(extra_area, idx + size.len + type_of.len,
                     idx + size.len + AsUsize(size.value),
                     type_of.value, items, oc)))

parse_extra_area(extra_area, oc) == parse_extra_area_loop(extra_area, 0, <<>>, oc)

(***************************************************************************)
(* FileArchiveHeader::parse (header/file.rs 125-200).                      *)
(***************************************************************************)
\* The data area: index += data_size, then seek_to_index when the index is
\* past the buffer (file.rs 172-184).
data_area_advance(R, f, data_size) ==
    IF R.index + data_size > BUFFER_SIZE
    THEN seek_to_index(skip(R, data_size), f)
    ELSE skip(R, data_size)

\* Mutant: the data offset is taken after the cursor has advanced.
file_data_area_late(general_header, flags, fields, name_length, name, R, extra_area, f) ==
    IF extra_area.status # "ok"
    THEN [status |-> extra_area.status, r |-> R, v |-> extra_area.v] ELSE
    [status |-> "ok",
     r |-> IF 1 \in general_header.flags
           THEN seek_to_index([R EXCEPT !.index = R.index + ToNat(general_header.data_size)], f)
           ELSE R,
     v |-> [general_header |-> general_header,
            file_flags |-> flags,
            unpacked_size |-> fields[1],
            attributes |-> fields[2],
            mtime |-> IF 1 \in flags THEN <<fields[3]>> ELSE <<>>,
            data_crc32 |-> IF 2 \in flags THEN <<fields[Len(fields) - 2]>> ELSE <<>>,
            compression_info |-> fields[Len(fields) - 1],
            host_os |-> fields[Len(fields)],
            name_length |-> name_length,
            name |-> name,
            extra_area |-> IF 0 \in general_header.flags
                           THEN <<extra_area.v>> ELSE <<>>,
            data_area |-> IF 1 \in general_header.flags
                          THEN <<R.fpos + R.index + ToNat(general_header.data_size)
                                 - R.last_read_amount>>
                          ELSE <<>>]]

\* The header is complete: the data area is recorded and stepped over.
file_data_area(general_header, flags, fields, name_length, name, R, extra_area, f) ==
    IF extra_area.status # "ok"
    THEN [status |-> extra_area.status, r |-> R, v |-> extra_area.v] ELSE
    Ok(IF HeaderFlags_DATA_AREA \in general_header.flags
       THEN data_area_advance(R, f, AsUsize(general_header.data_size))
       ELSE R,
       [general_header |-> general_header,
        file_flags |-> flags,
        unpacked_size |-> fields[1],
        attributes |-> fields[2],
        mtime |-> IF FileFlags_UNIX_TIME \in flags THEN <<fields[3]>> ELSE <<>>,
        data_crc32 |-> IF FileFlags_CRC32_PRESENT \in flags
                       THEN <<fields[Len(fields) - 2]>> ELSE <<>>,
        compression_info |-> fields[Len(fields) - 1],
        host_os |-> fields[Len(fields)],
        name_length |-> name_length,
        name |-> name,
        extra_area |-> IF HeaderFlags_EXTRA_AREA \in general_header.flags
                       THEN <<extra_area.v>> ELSE <<>>,
        data_area |-> IF HeaderFlags_DATA_AREA \in general_header.flags
                      THEN <<get_seek_position(R)>> ELSE <<>>])

\* parse_extra_area on the bytes of the extra area.
file_records(general_header, flags, fields, name_length, name, chunk, f, oc) ==
    IF chunk.status # "ok" THEN Stop(chunk.status, chunk.r) ELSE
    file_data_area(general_header, flags, fields, name_length, name, chunk.r,
        IF HeaderFlags_EXTRA_AREA \in general_header.flags
        THEN parse_extra_area(chunk.v, oc)
        ELSE [status |-> "ok", v |-> <<>>], f)

\* String::from_utf8(name)?, then the bytes of the extra area.
file_extra_area(general_header, flags, fields, name_length, name, f, oc) ==
    IF name.status # "ok" THEN Stop(name.status, name.r) ELSE
    IF ~IsUtf8(name.v, 1) THEN Stop("Err(Utf8)", name.r) ELSE
    IF ~Readable(general_header.extra_area_size) \/ ~Small(general_header.data_size)
    THEN Stop("out_of_model", name.r) ELSE
    file_records(general_header, flags, fields, name_length, name.v,
        IF HeaderFlags_EXTRA_AREA \in general_header.flags
        THEN get_chunk_amount(name.r, f, AsUsize(general_header.extra_area_size))
        ELSE Ok(name.r, <<>>), f, oc)

file_name_bytes(general_header, flags, fields, name_length, f, oc) ==
    IF name_length.status # "ok" THEN Stop(name_length.status, name_length.r) ELSE
    IF ~Readable(name_length.v) THEN Stop("out_of_model", name_length.r) ELSE
    file_extra_area(general_header, flags, fields, name_length.v,
        get_chunk_amount(name_length.r, f, AsUsize(name_length.v)), f, oc)

\* OperatingSystem::from_bits(host_os)?, then the name length.
file_name_length(general_header, flags, fields, f, oc) ==
    IF fields.status # "ok" THEN Stop(fields.status, fields.r) ELSE
    IF ~(fields.v[Len(fields.v)] \subseteq OperatingSystem_all)
    THEN InvalidBitFlag("Err(InvalidBitFlag Operating System)", fields.r,
                        fields.v[Len(fields.v)]) ELSE
    file_name_bytes(general_header, flags, fields.v, next_vint(fields.r, f, oc), f, oc)

\* FileFlags::from_bits(flags)?, then unpacked_size, attributes, mtime and
\* data_crc32 when flagged, compression_info, host_os.
file_fields(general_header, value, f, oc) ==
    IF value.status # "ok" THEN Stop(value.status, value.r) ELSE
    IF ~(value.v \subseteq FileFlags_all)
    THEN InvalidBitFlag("Err(InvalidBitFlag File)", value.r, value.v) ELSE
    file_name_length(general_header, value.v,
        read_values(value.r, f, oc,
                    <<"vint", "vint">>
                    \o Opt(FileFlags_UNIX_TIME \in value.v, "u32")
                    \o Opt(FileFlags_CRC32_PRESENT \in value.v, "u32")
                    \o <<"vint", "vint">>, <<>>), f, oc)

FileArchiveHeader_parse(general_header, R, f, oc) ==
    file_fields(general_header, next_vint(R, f, oc), f, oc)

(***************************************************************************)
(* Legacy format: GeneralHeader4::parse (header_4/mod.rs 138-199).  The    *)
(* println! of &buffer[index..index + n] before each field panics when the *)
(* slice runs past the buffer.                                             *)
(***************************************************************************)
\* HeaderType4_0: MarkBlock = 0x72, Archive, File, ..., Terminator
HeaderType4_0_MarkBlock == 114

HeaderType4_0_Archive == 115

HeaderType4_0_File == 116

HeaderType4_0_Terminator == 123

HeaderType4_0_all == HeaderType4_0_MarkBlock..HeaderType4_0_Terminator

\* The variants of HeaderType4_0 in declaration order: the first has the
\* discriminant 0x72 and each next one the discriminant after it.
HeaderType4_0_variants ==
    <<"MarkBlock", "Archive", "File", "OldComment", "OldAuthInfo",
      "OldSubBlock", "OldRecoveryRecord", "OldAuthInfo2", "SubBlock",
      "Terminator">>

\* Mutant: the discriminants start one later.
HeaderType4_0_try_from_shifted(byte) ==
    IF byte - 1 \in HeaderType4_0_all
    THEN <<HeaderType4_0_variants[byte - HeaderType4_0_MarkBlock]>>
    ELSE <<>>

\* HeaderType4_0::try_from (derive TryFromPrimitive): <<variant>>, or <<>>
\* for a byte that is no discriminant.
HeaderType4_0_try_from(byte) ==
    IF byte \in HeaderType4_0_all
    THEN <<HeaderType4_0_variants[byte - HeaderType4_0_MarkBlock + 1]>>
    ELSE <<>>

\* header_4::HeaderFlags: the seven common bits and UNKNOWN = 0x9020
HeaderFlags4_all == (0..6) \cup Bits(36896, 16)

\* value &= !0b1110_0000
ClearDictionaryBits(value) == value \ {5, 6, 7}

\* (value >> 5) & 0b0111
DictionaryField(value) == {b - 5 : b \in value \cap {5, 6, 7}}

PrintlnPanics(R, n) == R.index + n > BUFFER_SIZE

\* println!("{:X?}", &buffer[index..index + n]) and then the read.
Printed(R, n, res) == IF PrintlnPanics(R, n) THEN Stop("panic", R) ELSE res

\* The flags of a header of type type_of whose raw field is raw.
flags_of(type_of, raw) ==
    IF type_of = HeaderType4_0_File THEN ClearDictionaryBits(raw) ELSE raw

GeneralHeader4_parse(R, f) ==
    Try(Printed(R, 2, next_u16(R, f)), LAMBDA crc32 :
    Try(Printed(crc32.r, 1, next_u8(crc32.r, f)), LAMBDA type_of :
        IF HeaderType4_0_try_from(type_of.v) = <<>>
        THEN Stop("Err(NumEnumHeaderType4)", type_of.r) ELSE
    Try(Printed(type_of.r, 2, next_u16(type_of.r, f)), LAMBDA raw :
        IF ~(flags_of(type_of.v, raw.v) \subseteq HeaderFlags4_all)
        THEN InvalidBitFlag("Err(InvalidBitFlag Header 4)", raw.r,
                            flags_of(type_of.v, raw.v)) ELSE
    Try(Printed(raw.r, 2, next_u16(raw.r, f)), LAMBDA size :
    Try(IF HeaderFlags_EXTRA_AREA \in flags_of(type_of.v, raw.v)
        THEN Printed(size.r, 8, next_u64(size.r, f))
        ELSE Ok(size.r, {}), LAMBDA add_size :
        Ok(add_size.r,
           [crc32 |-> crc32.v, size |-> size.v, type_of |-> type_of.v,
            flags |-> flags_of(type_of.v, raw.v),
            dictionary |-> IF type_of.v = HeaderType4_0_File
                           THEN <<DictionaryField(flags_of(type_of.v, raw.v))>>
                           ELSE <<>>,
            extra_area_size |-> add_size.v, data_size |-> {}]))))))

\* The fixed length the legacy File arm reads as the name (lib.rs 236).
LEGACY_NAME_BYTES == 23

\* Archive::parse, legacy File arm (lib.rs 200-257): the fields in order,
\* the name, then the packed data.
RECURSIVE read_fields(_, _, _, _)
\* Reads fixed-width fields of the given widths: [status, r, v].
read_fields(R, f, widths, acc) ==
    IF widths = <<>> THEN Ok(R, acc)
    ELSE LET x == CASE widths[1] = 1 -> next_u8(R, f)
                    [] widths[1] = 2 -> next_u16(R, f)
                    [] OTHER -> next_u32(R, f)
         IN  IF x.status # "ok" THEN Stop(x.status, x.r)
             ELSE read_fields(x.r, f, Tail(widths), Append(acc, x.v))

\* pack_size, unp_size, host_os, file_crc, ftime, unp_ver, method,
\* name_size, attr
LegacyFileWidths == <<4, 4, 1, 4, 4, 1, 1, 2, 4>>

legacy_file_arm(general_header, R, f) ==
    Try(read_fields(R, f, LegacyFileWidths, <<>>), LAMBDA fields :
    Try(get_chunk_amount(fields.r, f, LEGACY_NAME_BYTES), LAMBDA file_name :
        IF ~IsUtf8(file_name.v, 1) THEN Stop("Err(Utf8)", file_name.r) ELSE
        IF ~Readable(fields.v[1]) THEN Stop("out_of_model", file_name.r) ELSE
    Try(get_chunk_amount(file_name.r, f, AsUsize(fields.v[1])), LAMBDA packed :
        Ok(packed.r,
           [general_header |-> general_header, pack_size |-> fields.v[1],
            unp_size |-> fields.v[2], host_os |-> fields.v[3],
            file_crc |-> fields.v[4], ftime |-> fields.v[5],
            unp_ver |-> fields.v[6], method |-> fields.v[7],
            name_size |-> fields.v[8], attr |-> fields.v[9],
            file_name |-> file_name.v]))))

\* Archive arm (lib.rs 193-198): skip::<2>(); skip::<4>()
legacy_archive_arm(general_header, R) ==
    Ok(skip(skip(R, 2), 4), [general_header |-> general_header])

\* One turn of the legacy header loop (lib.rs 187-261); any other header
\* type reaches unimplemented!().
legacy_header(R, f) ==
    Try(GeneralHeader4_parse(R, f), LAMBDA g :
        IF g.v.type_of = HeaderType4_0_Archive
        THEN legacy_archive_arm(g.v, g.r)
        ELSE IF g.v.type_of = HeaderType4_0_File
             THEN legacy_file_arm(g.v, g.r, f)
             ELSE Stop("panic", g.r))

(***************************************************************************)
(* Archive::parse, modern header loop (lib.rs 133-181): one turn.          *)
(***************************************************************************)
modern_arm(g, f, oc) ==
    IF g.status # "ok" THEN Stop(g.status, g.r)
    ELSE IF g.v.type_of = HeaderType_MainArchive
         THEN MainArchiveHeader_parse(g.v, g.r, f, oc)
    ELSE IF g.v.type_of = HeaderType_File
         THEN FileArchiveHeader_parse(g.v, g.r, f, oc)
    ELSE IF g.v.type_of = HeaderType_EndOfArchive
         THEN EndOfArchiveHeader_parse(g.v, g.r, f, oc)
         ELSE Stop("panic", g.r)

modern_header(R, f, oc) == modern_arm(GeneralHeader_parse(R, f, oc), f, oc)

\* Mutant: a missing Main header is not reported.
parse_result_no_main(v5, main_archive, end_of_archive) ==
    IF v5 THEN IF end_of_archive = <<>> THEN "Err(MissingEndHeader)"
               ELSE "Ok(Five)"
    ELSE "Ok(Four)"

\* The value built after the loops (lib.rs 281-292).
parse_result(v5, main_archive, end_of_archive) ==
    IF v5 THEN IF main_archive = <<>> THEN "Err(MissingMainHeader)"
               ELSE IF end_of_archive = <<>> THEN "Err(MissingEndHeader)"
               ELSE "Ok(Five)"
    ELSE "Ok(Four)"

(***************************************************************************)
(* The zip crate: CentralDirHeader::read (zip header/                      *)
(* central_directory_file.rs 102-106), LocalFileHeader::parse (zip header/ *)
(* local_file.rs 36-93) and CompressionType::decompress (zip compression/  *)
(* mod.rs 97-116).  The ArchiveReader of the zip crate (zip lib.rs         *)
(* 101-212) has the operations of the rar one, with the same bodies.       *)
(***************************************************************************)
LOCAL_FILE_HEADER_SIG == <<80, 75, 3, 4>>

\* CompressionType: None = 0, ..., Deflate = 8, ...
CompressionType_None == 0

CompressionType_Deflate == 8

\* The discriminants of CompressionType.
CompressionType_all == (0..10) \cup {12, 14, 16, 18, 19, 20} \cup (93..99)

\* DeflateDecoder on a stream of stored blocks (RFC 1951, BTYPE = 00): a
\* byte with BFINAL in bit 0 and BTYPE in bits 1-2, LEN and its complement
\* NLEN, then LEN bytes.  Other streams are outside the model.
RECURSIVE inflate_stored(_, _, _)
inflate_stored(value, i, out) ==
    IF i + 4 > Len(value) THEN [status |-> "out_of_model", v |-> out]
    ELSE IF \/ (value[i] \div 2) % 4 # 0
            \/ value[i + 1] + 256 * value[i + 2]
                 + value[i + 3] + 256 * value[i + 4] # 65535
            \/ i + 4 + value[i + 1] + 256 * value[i + 2] > Len(value)
         THEN [status |-> "out_of_model", v |-> out]
    ELSE IF value[i] % 2 = 1
         THEN [status |-> "ok",
               v |-> out \o SubSeq(value, i + 5,
                                   i + 4 + value[i + 1] + 256 * value[i + 2])]
         ELSE inflate_stored(value, i + 5 + value[i + 1] + 256 * value[i + 2],
                  out \o SubSeq(value, i + 5,
                                i + 4 + value[i + 1] + 256 * value[i + 2]))

\* CompressionType::decompress: String::from_utf8 for None, read_to_string
\* of the inflated stream for Deflate, unimplemented!() for the rest.
decompress(self, value, R) ==
    IF self = CompressionType_None
    THEN IF IsUtf8(value, 1) THEN Ok(R, value) ELSE Stop("Err(Utf8)", R)
    ELSE IF self = CompressionType_Deflate
         THEN IF inflate_stored(value, 1, <<>>).status # "ok"
              THEN Stop(inflate_stored(value, 1, <<>>).status, R)
              ELSE IF IsUtf8(inflate_stored(value, 1, <<>>).v, 1)
                   THEN Ok(R, inflate_stored(value, 1, <<>>).v)
                   ELSE Stop("Err(Io)", R)
         ELSE Stop("panic", R)

\* file_last_mod_time, file_last_mod_date, crc_32, compressed_size,
\* uncompressed_size, file_name_length, extra_field_length, then the name,
\* the extra field and the compressed contents.
local_rest(compression, R, f) ==
    Try(read_fields(R, f, <<2, 2, 4, 4, 4, 2, 2>>, <<>>), LAMBDA fields :
    Try(get_chunk_amount(fields.r, f, AsUsize(fields.v[6])), LAMBDA file_name :
        IF ~IsUtf8(file_name.v, 1) THEN Stop("Err(Utf8)", file_name.r) ELSE
    Try(get_chunk_amount(file_name.r, f, AsUsize(fields.v[7])), LAMBDA extra_field :
        IF ~Readable(fields.v[4]) THEN Stop("out_of_model", extra_field.r) ELSE
    Try(get_chunk_amount(extra_field.r, f, AsUsize(fields.v[4])),
        LAMBDA comp_contents :
        decompress(compression, comp_contents.v, comp_contents.r)))))

\* min_version, gp_flag and CompressionType::try_from(compression)?
local_method(R, f) ==
    Try(read_fields(R, f, <<2, 2, 2>>, <<>>), LAMBDA head :
        IF ToNat(head.v[3]) \notin CompressionType_all
        THEN Stop("Err(NumEnum)", head.r)
        ELSE local_rest(ToNat(head.v[3]), head.r, f))

\* LocalFileHeader::parse: a zeroed window, seek_to(start_offset), one read
\* of the file, the signature assertion, then the fields; v is the contents.
LocalFileHeader_parse(R, start_offset, f) ==
    LET zeroed == [seek_to(R, start_offset) EXCEPT !.buffer = init_reader.buffer]
        first == [seek_next(zeroed, f) EXCEPT !.index = zeroed.index]
    IN  IF SubSeq(first.buffer, first.index + 1, first.index + 4)
              # LOCAL_FILE_HEADER_SIG
        THEN Stop("panic", first)
        ELSE local_method(skip(first, 4), f)

(***************************************************************************)
(* The zip crate: the end of central directory record, the central         *)
(* directory records and the cache of the entries found so far.            *)
(***************************************************************************)
END_CENTRAL_DIR_SIG == <<80, 75, 5, 6>>

END_CENTRAL_DIR_SIZE_KNOWN == 22

CENTRAL_DIR_SIG == <<80, 75, 1, 2>>

CENTRAL_DIR_SIZE_KNOWN == 46

\* SIGNATURE_SIZE of the zip crate.
ZIP_SIGNATURE_SIZE == 4

\* ArchiveReader::find_next_signature: -1 stands for None.
find_next_signature(window, from, signature) ==
    LET hits == {at \in from..(BUFFER_SIZE - Len(signature)) :
                    SigAt(window, at, signature)}
    IN  IF hits = {} THEN -1
        ELSE CHOOSE at \in hits : \A other \in hits : at <= other

\* The loop of EndCentralDirHeader::find and of FileReaderCache::find_next
\* up to the parse of the record: a read, the search in the window, the
\* refill when the record may cross the window end, the seek back by
\* SIGNATURE_SIZE - 1 after a full window without a match.
RECURSIVE signature_scan(_, _, _, _)
signature_scan(R, f, signature, size_known) ==
    LET R1 == seek_next(R, f)
        at == find_next_signature(R1.buffer, R1.index, signature)
    IN  IF at # -1
        THEN [found |-> TRUE,
              r |-> IF at + size_known >= BUFFER_SIZE
                    THEN seek_to_index([R1 EXCEPT !.index = at], f)
                    ELSE [R1 EXCEPT !.index = at]]
        ELSE IF R1.last_read_amount < BUFFER_SIZE
             THEN [found |-> FALSE, r |-> R1]
             ELSE signature_scan(
                      [R1 EXCEPT !.fpos = R1.fpos + (1 - ZIP_SIGNATURE_SIZE)],
                      f, signature, size_known)

\* The start of find and find_next: a zeroed window and seek_to(value).
scan_from(R, value) == [seek_to(R, value) EXCEPT !.buffer = init_reader.buffer]

\* assert_eq!(&buffer[index..index + 4], &SIG)
SignatureAsserted(R, signature) ==
    /\ R.index + Len(signature) <= BUFFER_SIZE
    /\ SubSeq(R.buffer, R.index + 1, R.index + Len(signature)) = signature

\* EndCentralDirHeader::parse
EndCentralDirHeader_parse(R, f) ==
    IF ~SignatureAsserted(R, END_CENTRAL_DIR_SIG) THEN Stop("panic", R) ELSE
    Try(read_fields(skip(R, 4), f, <<2, 2, 2, 2, 4, 4, 2>>, <<>>), LAMBDA h :
    Try(get_chunk_amount(h.r, f, AsUsize(h.v[7])), LAMBDA comment :
        IF ~IsUtf8(comment.v, 1) THEN Stop("Err(Utf8)", comment.r) ELSE
        Ok(comment.r,
           [current_disk_number |-> h.v[1], start_disk_number |-> h.v[2],
            record_count_on_curr_disk |-> h.v[3],
            total_record_count |-> h.v[4], size_of |-> h.v[5],
            curr_offset |-> h.v[6], comment_len |-> h.v[7],
            comment |-> comment.v])))

\* EndCentralDirHeader::find
EndCentralDirHeader_find(R, f) ==
    LET s == signature_scan(scan_from(R, 0), f, END_CENTRAL_DIR_SIG,
                            END_CENTRAL_DIR_SIZE_KNOWN)
    IN  IF s.found THEN EndCentralDirHeader_parse(s.r, f)
        ELSE Stop("Err(MissingEndHeader)", s.r)

\* CentralDirHeader::parse, after the compression method: the fixed fields,
\* then the name, the extra field and the comment.
central_rest(head, R, f) ==
    Try(read_fields(R, f, <<2, 2, 4, 4, 4, 2, 2, 2, 2, 2, 4, 4>>, <<>>),
        LAMBDA h :
    Try(get_chunk_amount(h.r, f, AsUsize(h.v[6])), LAMBDA file_name :
        IF ~IsUtf8(file_name.v, 1) THEN Stop("Err(Utf8)", file_name.r) ELSE
    Try(get_chunk_amount(file_name.r, f, AsUsize(h.v[7])), LAMBDA extra_field :
    Try(get_chunk_amount(extra_field.r, f, AsUsize(h.v[8])),
        LAMBDA file_comment :
        IF ~IsUtf8(file_comment.v, 1) THEN Stop("Err(Utf8)", file_comment.r)
        ELSE
        Ok(file_comment.r,
           [by_version |-> head[1], min_version |-> head[2],
            gp_flag |-> head[3], compression |-> ToNat(head[4]),
            compressed_size |-> h.v[4], uncompressed_size |-> h.v[5],
            file_name_length |-> h.v[6], extra_field_length |-> h.v[7],
            file_comment_length |-> h.v[8], relative_offset |-> h.v[12],
            file_name |-> file_name.v, extra_field |-> extra_field.v,
            file_comment |-> file_comment.v])))))

\* CentralDirHeader::parse
CentralDirHeader_parse(R, f) ==
    IF ~SignatureAsserted(R, CENTRAL_DIR_SIG) THEN Stop("panic", R) ELSE
    Try(read_fields(skip(R, 4), f, <<2, 2, 2, 2>>, <<>>), LAMBDA head :
        IF ToNat(head.v[4]) \notin CompressionType_all
        THEN Stop("Err(NumEnum)", head.r)
        ELSE central_rest(head.v, head.r, f))

\* FileReaderCache::default(): an empty Vec has no capacity.
FileReaderCache_default == [last_seek_pos |-> 0, files |-> <<>>, capacity |-> 0]

\* Vec::reserve(additional) on the empty Vec of a new cache: the capacities
\* it may leave.  It guarantees at least additional; the amortized growth
\* of the standard library allocates no fewer than 4 elements of this size
\* (its smallest non-zero capacity), and nothing for additional = 0.
reserve(additional) ==
    IF additional = 0 THEN {0}
    ELSE {additional, IF additional < 4 THEN 4 ELSE additional}

\* FileReaderCache::is_fully_cached
is_fully_cached(self) == Len(self.files) = self.capacity

\* The result of a cache operation: the reader, the cache and the value.
Cached(status, R, self, v) == [status |-> status, r |-> R, cache |-> self, v |-> v]

\* FileReaderCache::find_next, after CentralDirHeader::parse returned h: the
\* record is pushed and last_seek_pos is the position after it.
parsed_next(self, h) ==
    IF h.status # "ok" THEN Cached(h.status, h.r, self, <<>>)
    ELSE Cached("ok", h.r,
                [self EXCEPT !.files = Append(@, h.v),
                             !.last_seek_pos = get_seek_position(h.r)],
                <<h.v>>)

\* FileReaderCache::find_next, once the search has ended at s.
found_next(self, s, f) ==
    IF ~s.found THEN Cached("ok", s.r, self, <<>>)
    ELSE parsed_next(self, CentralDirHeader_parse(s.r, f))

\* FileReaderCache::find_next: v is <<record>> for Some, <<>> for None.
find_next(self, R, f) ==
    IF is_fully_cached(self) THEN Cached("ok", R, self, <<>>)
    ELSE found_next(self,
                    signature_scan(scan_from(R, self.last_seek_pos), f,
                                   CENTRAL_DIR_SIG, CENTRAL_DIR_SIZE_KNOWN),
                    f)

\* FileReaderCache::list_files: the loop over find_next, next is what the
\* call of this turn returned.
RECURSIVE list_files_loop(_, _, _)
list_files_loop(next, f, items) ==
    IF next.status # "ok" THEN Cached(next.status, next.r, next.cache, <<>>)
    ELSE IF next.v = <<>> THEN Cached("ok", next.r, next.cache, items)
    ELSE list_files_loop(find_next(next.cache, next.r, f), f,
                         Append(items, next.v[1]))

\* FileReaderCache::list_files
list_files(self, R, f) ==
    IF is_fully_cached(self) THEN Cached("ok", R, self, self.files)
    ELSE list_files_loop(find_next(self, R, f), f, self.files)

\* Mutant: the read leaves its own position in the cache.
read_entry_moves_cache(self, entry, R, f) ==
    LET res == LocalFileHeader_parse(
                   R, ToNat(self.files[entry].relative_offset), f)
    IN  Cached(res.status, res.r,
               [self EXCEPT !.last_seek_pos = get_seek_position(res.r)], res.v)

\* CentralDirHeader::read of the cached entry: LocalFileHeader::parse at
\* its relative_offset; the cache is not touched.
read_entry(self, entry, R, f) ==
    LET res == LocalFileHeader_parse(
                   R, ToNat(self.files[entry].relative_offset), f)
    IN  Cached(res.status, res.r, self, res.v)

(***************************************************************************)
(* Bounds of the model and the families of input files.                    *)
(***************************************************************************)
\* Number of reader operations the harness applies after the signature.
MaxOps == 2

\* Length of the byte pattern that follows the signature in a long file.
LongBody == 2040

\* Length of the byte pattern that follows the signature in a short file.
ShortBody == 30

\* A byte pattern holding vint encodings of 1 to 9 bytes and the instances
\* [0x01], [0xFF, 0x01], [0xFF, 0xFF, 0x00].
Pattern ==
    <<1, 255, 1, 128, 129, 130, 131, 132, 133, 134, 135, 127, 255, 255, 0,
      120, 86, 52, 18, 200, 3, 64, 9>>

\* Stub bytes never form a signature: they are in 48..54.
StubByte(i) == 48 + (i % 7)

Stub(n) == [i \in 1..n |-> StubByte(i)]

Body(n, rot) == [i \in 1..n |-> Pattern[((i - 1 + rot) % Len(Pattern)) + 1]]

\* Stub lengths that put the reader next to the end of the first window.
NearEndStubs == 976..992

\* A vint encoding of n bytes: n - 1 bytes with the continuation bit, then
\* a byte without it.
LongVint(n) == [i \in 1..n |-> IF i < n THEN 129 + i ELSE 1]

\* Encoding lengths around the one whose last shift reaches 64.
LongVintLengths == 9..12

LongVintFiles ==
    {GENERAL_DIR_SIG_5_0 \o LongVint(n) \o Body(ShortBody, 0) :
        n \in LongVintLengths}

ReaderFiles ==
    LongVintFiles \cup
    {Stub(s) \o GENERAL_DIR_SIG_5_0 \o Body(LongBody, 0) : s \in NearEndStubs} \cup
    {Stub(s) \o GENERAL_DIR_SIG_4_0 \o Body(LongBody, 12) : s \in {0, 512, 985, 1975}} \cup
    {Stub(s) \o GENERAL_DIR_SIG_5_0 \o Body(ShortBody, r) : s \in {0, 950}, r \in {0, 3}}

ChunkSizes == {0, 3, 9, 1000, 2012}

AdvanceSizes == {0, 5, 17, 1000}

\* File offsets the harness seeks to, and the sizes it reads there.
SeekTargets == {0, 5, 1500}

SeekReadSizes == {4, 1200}

(***************************************************************************)
(* FileArchiveHeader::read (header/file.rs 202-210).                       *)
(***************************************************************************)
\* String::from_utf8 of the chunk; the ? operator passes an error on.
read_string(chunk) ==
    IF chunk.status # "ok" THEN chunk
    ELSE IF ~IsUtf8(chunk.v, 1) THEN [status |-> "Err(Utf8)", r |-> chunk.r, v |-> <<>>]
    ELSE chunk

\* FileArchiveHeader::read: the String is modelled by its bytes.
FileArchiveHeader_read(header, R, f) ==
    IF header.data_area # <<>> /\ ~Readable(header.general_header.data_size)
    THEN Stop("out_of_model", R)
    ELSE IF header.data_area # <<>>
    THEN read_string(get_chunk_amount(seek_to(R, header.data_area[1]), f,
                                      AsUsize(header.general_header.data_size)))
    ELSE Ok(R, <<>>)

(***************************************************************************)
(* Input files of the parse: encoders and archive builders.                *)
(***************************************************************************)
RECURSIVE EncVint(_)
\* The vint encoding of n: 7 bits per byte, low group first.
EncVint(n) ==
    IF n < 128 THEN <<n>> ELSE <<128 + (n % 128)>> \o EncVint(n \div 128)

EncU16(n) == <<n % 256, (n \div 256) % 256>>

EncU32(n) ==
    <<n % 256, (n \div 256) % 256, (n \div 65536) % 256, (n \div 16777216) % 256>>

\* A header: CRC32, the size of what follows the size field, the body.
Header(crc, body) == EncU32(crc) \o EncVint(Len(body)) \o body

\* Main archive header; volume is <<>> or <<n>>.
MainHeader(volume) ==
    Header(287454020,
           EncVint(HeaderType_MainArchive) \o EncVint(0)
           \o (IF volume = <<>> THEN EncVint(0)
               ELSE EncVint(2) \o EncVint(volume[1])))

EndHeader == Header(1432778632, EncVint(HeaderType_EndOfArchive) \o EncVint(0) \o EncVint(0))

\* A Time record of the extra area: Unix format, modification time.
UnixTimeRecord == EncVint(6) \o EncVint(FILE_TIME_RECORD) \o EncVint(3) \o EncU32(1600000000)

\* A Time record in Windows format (ticks after 1970), modification time.
WindowsTimeRecord ==
    EncVint(10) \o EncVint(FILE_TIME_RECORD) \o EncVint(2) \o <<0, 0, 0, 0, 0, 0, 208, 1>>

\* A record of another type, which the parser skips.
OtherRecord == EncVint(3) \o EncVint(1) \o <<7, 9>>

DataByte(i) == 160 + (i % 11)

\* A File header with its data area.  times: whether mtime and CRC32 are
\* present; extra: the bytes of the extra area; data: the data-area length.
FileHeader(name, times, extra, data) ==
    Header(1146447479,
           EncVint(HeaderType_File)
           \o EncVint((IF extra # <<>> THEN 1 ELSE 0) + (IF data > 0 THEN 2 ELSE 0))
           \o (IF extra # <<>> THEN EncVint(Len(extra)) ELSE <<>>)
           \o (IF data > 0 THEN EncVint(data) ELSE <<>>)
           \o EncVint(IF times THEN 6 ELSE 0)
           \o EncVint(data * 3) \o EncVint(32)
           \o (IF times THEN EncU32(1500000000) \o EncU32(1122334455) ELSE <<>>)
           \o EncVint(128 + 3) \o EncVint(1)
           \o EncVint(Len(name)) \o name
           \o extra)
    \o [i \in 1..data |-> DataByte(i)]

NameA == <<97, 46, 116, 120, 116>>

NameB == <<100, 105, 114, 47, 195, 169, 46, 98, 105, 110>>

\* A valid modern archive: Main, a file with a data area of d bytes, a
\* second file with an extra area, End.
ModernArchive(d, volume, extra) ==
    GENERAL_DIR_SIG_5_0 \o MainHeader(volume)
    \o FileHeader(NameA, FALSE, <<>>, d)
    \o FileHeader(NameB, TRUE, extra, 5)
    \o EndHeader

STUB_SIZE == 512

\* Number of data sizes tried around a window end: enough to move the
\* window end over every byte of the second File header and the End header.
BandWidth == 62

\* What a modern archive holds besides the first file's data area.
Overhead == Len(ModernArchive(200, <<>>, UnixTimeRecord)) - 200

\* The data sizes that put the archive's end within the band after edge.
Band(edge) ==
    {d \in 128..(2 * BUFFER_SIZE) :
        d + Overhead \in (edge - 4)..(edge - 4 + BandWidth)}

DataSizes == Band(BUFFER_SIZE - STUB_SIZE) \cup Band(BUFFER_SIZE)

\* Archives with a volume number, a skipped record and a Windows time.
VolumeArchives ==
    {ModernArchive(d, <<4>>, OtherRecord \o WindowsTimeRecord) : d \in {0, 420, 930}}

ModernArchives ==
    {ModernArchive(d, <<>>, UnixTimeRecord) : d \in DataSizes} \cup VolumeArchives

StubbedArchives == {Stub(STUB_SIZE) \o A : A \in ModernArchives}

\* A legacy archive body: an Archive header, then a File header with a
\* 23-byte name and pack bytes of packed data.
LegacyArchiveHeader ==
    EncU16(37071) \o <<HeaderType4_0_Archive>> \o EncU16(0) \o EncU16(13)
    \o <<0, 0, 0, 0, 0, 0>>

LegacyFileHeader(pack) ==
    EncU16(4660) \o <<HeaderType4_0_File>> \o EncU16(36896 + 64) \o EncU16(55)
    \o EncU32(pack) \o EncU32(pack * 2) \o <<2>> \o EncU32(305419896)
    \o EncU32(1390000000) \o <<29, 51>> \o EncU16(23) \o EncU32(32)
    \o [i \in 1..LEGACY_NAME_BYTES |-> 97 + (i % 26)]
    \o [i \in 1..pack |-> DataByte(i)]

LegacyArchive(pack) ==
    GENERAL_DIR_SIG_4_0 \o LegacyArchiveHeader \o LegacyFileHeader(pack)

\* Offsets of a signature in a file: the window ends and what precedes them.
SignatureOffsets == {0, 1, STUB_SIZE} \cup (984..1001) \cup {1986, 1987, 1988}

SignatureFiles ==
    {Stub(s) \o ModernArchive(0, <<>>, UnixTimeRecord) : s \in SignatureOffsets}
    \cup {Stub(s) \o LegacyArchive(9) : s \in SignatureOffsets}

\* Files without a signature, around the window size.
PlainLengths == {0, 1, 6, 7, 999, 1000, 1001, 1994, 2500}

PlainFiles == {Stub(n) : n \in PlainLengths}

\* Modern files that are no valid archive: cut after the Main header, no
\* Main header, a header of a type the parser does not handle.
BrokenArchives ==
    {GENERAL_DIR_SIG_5_0 \o MainHeader(<<>>),
     GENERAL_DIR_SIG_5_0 \o EndHeader,
     GENERAL_DIR_SIG_5_0 \o MainHeader(<<>>) \o Header(1, EncVint(3) \o EncVint(0))}

\* Well-formed streams: signature, Main, one File header per entry of sizes
\* (the entry is the length of its data area, 0 for none), End, then tail.
StreamFile(i, d) ==
    IF i % 2 = 1 THEN FileHeader(NameA, FALSE, <<>>, d)
    ELSE FileHeader(NameB, TRUE, UnixTimeRecord, d)

RECURSIVE StreamFiles(_, _)
StreamFiles(sizes, i) ==
    IF i > Len(sizes) THEN <<>>
    ELSE StreamFile(i, sizes[i]) \o StreamFiles(sizes, i + 1)

Stream(sizes, tail) ==
    GENERAL_DIR_SIG_5_0 \o MainHeader(<<>>) \o StreamFiles(sizes, 1)
    \o EndHeader \o tail

\* Number of data sizes that move the End header over a window end.
EndBand == 12

StreamSizes ==
    {<<>>, <<0>>, <<5>>, <<5, 0>>, <<0, 7, 3>>, <<400, 700, 20>>, <<1200>>,
     <<930, 40, 2100>>}
    \cup {<<d, 0>> : d \in 900..(900 + EndBand)}

\* What may follow the End header: nothing, stray bytes, further headers.
StreamTails ==
    {<<>>, Stub(3), FileHeader(NameA, FALSE, <<>>, 4) \o EndHeader}

DispatchStreams == {Stream(s, t) : s \in StreamSizes, t \in StreamTails}

\* Modern streams without a Main header: File headers, then End.
HeadlessStreams ==
    {GENERAL_DIR_SIG_5_0 \o StreamFiles(s, 1) \o EndHeader :
        s \in {<<>>, <<5>>, <<0, 7>>, <<1200>>}}

\* Modern streams cut right after the last File header or its data area.
TruncatedStreams ==
    {GENERAL_DIR_SIG_5_0 \o MainHeader(<<>>) \o StreamFiles(s, 1) :
        s \in {<<>>, <<0>>, <<5>>, <<5, 0>>, <<1200>>, <<400, 700>>}}

\* A File header that declares a data area of declared bytes, without the
\* data.
FileHeaderOnly(name, declared) ==
    SubSeq(FileHeader(name, FALSE, <<>>, declared), 1,
           Len(FileHeader(name, FALSE, <<>>, declared)) - declared)

\* Declared length of a data area that runs past the end of the file.
OverrunSize == 76

\* What precedes the data of the first file of an overrun stream.
OverrunPrefix(d1) ==
    GENERAL_DIR_SIG_5_0 \o MainHeader(<<>>) \o FileHeaderOnly(NameA, d1)

\* The file ends with a File header that declares more data than the file
\* holds.  The first file's data of d1 bytes holds the bytes of an End
\* header at the file offset pad + Len(second header) + OverrunSize.
OverrunStream(d1, pad) ==
    LET second == FileHeaderOnly(NameB, OverrunSize)
        k == pad + Len(second) + OverrunSize - Len(OverrunPrefix(d1))
    IN  OverrunPrefix(d1) \o Stub(k) \o EndHeader
        \o Stub(d1 - k - Len(EndHeader)) \o second

\* Overrun streams in one window and over two windows, and streams cut
\* within the data of their last file.
OverrunStreams ==
    {OverrunStream(d1, pad) : d1 \in {200, 970}, pad \in {0, 1}}
    \cup {GENERAL_DIR_SIG_5_0 \o MainHeader(<<>>) \o FileHeaderOnly(NameA, d)
             \o Stub(cut) : d \in {5, 1200}, cut \in {0, 3}}

\* Text payloads: "hello" and n letters.
Hello == <<104, 101, 108, 108, 111>>

Text(n) == [i \in 1..n |-> 97 + (i % 26)]

\* Streams whose files hold text: "hello", a file without a data area, and
\* n letters, for n below and above the window size.
TextStreams ==
    {GENERAL_DIR_SIG_5_0 \o MainHeader(<<>>)
       \o FileHeaderOnly(NameA, Len(Hello)) \o Hello
       \o FileHeader(NameB, FALSE, <<>>, 0)
       \o FileHeaderOnly(NameA, n) \o Text(n)
       \o EndHeader : n \in {3, 1200}}

\* Modern streams with a second Main header before End.
RepeatedMainStreams ==
    {GENERAL_DIR_SIG_5_0 \o MainHeader(<<>>) \o MainHeader(<<4>>) \o EndHeader,
     GENERAL_DIR_SIG_5_0 \o MainHeader(<<>>) \o StreamFiles(<<5>>, 1)
        \o MainHeader(<<>>) \o EndHeader}

\* A header of the given type, header flags and typed flags, with no
\* further field.
FlaggedHeader(type_of, header_flags, typed_flags) ==
    Header(19088743, EncVint(type_of) \o EncVint(header_flags)
                     \o EncVint(typed_flags))

\* A stream whose first header is such a header, followed by End.
FlaggedStream(type_of, header_flags, typed_flags) ==
    GENERAL_DIR_SIG_5_0 \o FlaggedHeader(type_of, header_flags, typed_flags)
    \o EndHeader

\* Header flags with a bit outside the seven defined ones.
UndefinedHeaderFlags == {128, 130, 4096}

BadHeaderFlagStreams ==
    {FlaggedStream(HeaderType_MainArchive, fl, 0) : fl \in UndefinedHeaderFlags}

\* A Time record whose flags hold the undefined bit 0x20.
BadTimeRecord == EncVint(6) \o EncVint(FILE_TIME_RECORD) \o EncVint(35) \o EncU32(1600000000)

\* Streams with an undefined bit in the flags of a typed header or of a
\* Time record: the stream, the error expected, the offending integer, and
\* the number of Main headers that precede the bad header.
BadTypedFlags ==
    {[stream |-> FlaggedStream(HeaderType_MainArchive, 0, 64),
      status |-> "Err(InvalidBitFlag Archive)", flag |-> 64, mains |-> 0],
     [stream |-> FlaggedStream(HeaderType_MainArchive, 0, 288),
      status |-> "Err(InvalidBitFlag Archive)", flag |-> 288, mains |-> 0],
     [stream |-> GENERAL_DIR_SIG_5_0 \o MainHeader(<<>>)
                 \o FlaggedHeader(HeaderType_File, 0, 16) \o EndHeader,
      status |-> "Err(InvalidBitFlag File)", flag |-> 16, mains |-> 1],
     [stream |-> GENERAL_DIR_SIG_5_0 \o MainHeader(<<>>)
                 \o FlaggedHeader(HeaderType_EndOfArchive, 0, 2),
      status |-> "Err(InvalidBitFlag End Of Archive)", flag |-> 2, mains |-> 1],
     [stream |-> GENERAL_DIR_SIG_5_0 \o MainHeader(<<>>)
                 \o FileHeader(NameA, FALSE, BadTimeRecord, 5) \o EndHeader,
      status |-> "Err(InvalidBitFlag File Time)", flag |-> 35, mains |-> 1]}

BadTypedFlagStreams == {b.stream : b \in BadTypedFlags}

\* Seconds stored in the three slots of a Time record in Unix format.
UnixSeconds == <<1667895851, 1500000001, 1400000002>>

\* Windows file times for the three slots (100-ns ticks since 1601, low
\* byte first) and the Unix seconds they stand for.
WindowsTicks ==
    <<<<0, 176, 168, 33, 43, 101, 213, 1>>,
      <<135, 214, 242, 124, 74, 252, 210, 1>>,
      <<135, 86, 44, 216, 203, 110, 207, 1>>>>

WindowsSeconds == <<1567826400, 1500000000, 1400000000>>

HasBit(n, b) == (n \div Pow2(b)) % 2 = 1

\* The slot of the k-th timestamp (1 modification, 2 creation, 3 last
\* access) of a Time record with these flags, nothing when it is absent.
TimeSlot(flags, k) ==
    IF ~HasBit(flags, k) THEN <<>>
    ELSE IF HasBit(flags, FileTimeFlags_FORMAT_UNIX_TIME) THEN EncU32(UnixSeconds[k])
    ELSE WindowsTicks[k]

TimeRecordData(flags) ==
    EncVint(flags) \o TimeSlot(flags, 1) \o TimeSlot(flags, 2) \o TimeSlot(flags, 3)

\* A Time record: the size counts the type and the data.
TimeRecord(flags) ==
    EncVint(Len(EncVint(FILE_TIME_RECORD)) + Len(TimeRecordData(flags)))
    \o EncVint(FILE_TIME_RECORD) \o TimeRecordData(flags)

\* The combinations of UnixFormat and the three presence bits.
TimeFlagCombos == 0..15

\* A stream whose only file has the Time record of these flags as its
\* extra area.
TimeStream(flags) ==
    GENERAL_DIR_SIG_5_0 \o MainHeader(<<>>)
    \o FileHeader(NameA, FALSE, TimeRecord(flags), 0) \o EndHeader

TimeStreams == {TimeStream(flags) : flags \in TimeFlagCombos}

\* Windows file times at the edges of the conversion, low byte first: the
\* tick 0, the last tick before 1970, a tick whose seconds need 33 bits and
\* the tick 132_123_000_000_000_000.
EdgeTicks ==
    <<<<0, 0, 0, 0, 0, 0, 0, 0>>,
      <<255, 127, 62, 213, 222, 177, 157, 1>>,
      <<128, 112, 57, 216, 94, 72, 54, 2>>,
      <<0, 176, 168, 33, 43, 101, 213, 1>>>>

\* (t / 10_000_000) - 11_644_473_600 of each edge tick as an integer: the
\* sign and the bits of the magnitude (-11_644_473_600, -1, 4_294_967_301
\* and 1_567_826_400).
EdgeSeconds ==
    <<[negative |-> TRUE, magnitude |-> EPOCH_DIFFERENCE],
      [negative |-> TRUE, magnitude |-> {0}],
      [negative |-> FALSE, magnitude |-> {0, 2, 32}],
      [negative |-> FALSE, magnitude |-> Bits(1567826400, 31)]>>

\* A Time record in Windows format with a modification time only.
TickRecord(ticks) ==
    EncVint(Len(EncVint(FILE_TIME_RECORD)) + 1 + Len(ticks))
    \o EncVint(FILE_TIME_RECORD) \o EncVint(Pow2(FileTimeFlags_MODIFICATION))
    \o ticks

TickStream(k) ==
    GENERAL_DIR_SIG_5_0 \o MainHeader(<<>>)
    \o FileHeader(NameA, FALSE, TickRecord(EdgeTicks[k]), 0) \o EndHeader

TickStreams == {TickStream(k) : k \in DOMAIN EdgeTicks}

\* Header type values outside 1..5: below, above, and above 255 with a low
\* byte inside and outside 1..5.
UnknownTypes == {0, 6, 200, 256, 257, 261, 262}

\* A header of the given type with no flags and one further zero field.
TypedHeader(type) == Header(858993459, EncVint(type) \o EncVint(0) \o EncVint(0))

\* Main header, a header of the given type, End header.
TypedStream(type) ==
    GENERAL_DIR_SIG_5_0 \o MainHeader(<<>>) \o TypedHeader(type) \o EndHeader

UnknownTypeStreams == {TypedStream(type) : type \in UnknownTypes}

\* A Service header (the name CMT, File layout) with its data area.
ServiceHeader(data) ==
    Header(572662306,
           EncVint(HeaderType_Service)
           \o EncVint(IF data > 0 THEN 2 ELSE 0)
           \o (IF data > 0 THEN EncVint(data) ELSE <<>>)
           \o EncVint(0) \o EncVint(data) \o EncVint(32)
           \o EncVint(128 + 3) \o EncVint(1)
           \o EncVint(3) \o <<67, 77, 84>>)
    \o [i \in 1..data |-> DataByte(i)]

\* Main header, n File headers, a Service header, End header.
ServiceStream(n, data) ==
    GENERAL_DIR_SIG_5_0 \o MainHeader(<<>>)
    \o (IF n > 0 THEN FileHeader(NameA, FALSE, <<>>, 5) ELSE <<>>)
    \o ServiceHeader(data) \o EndHeader

ServiceStreams == {ServiceStream(n, data) : n \in {0, 1}, data \in {0, 4}}

\* The Terminator header of a legacy archive with the given flags field
\* (0x4000 in archives written by RAR).
LegacyTerminator(flags) ==
    EncU16(15812) \o <<HeaderType4_0_Terminator>> \o EncU16(flags) \o EncU16(7)

\* A legacy stream: signature, Archive header, n File headers with their
\* packed data, then the tail (a Terminator header or nothing).
LegacyFiles(n) ==
    IF n = 0 THEN <<>>
    ELSE IF n = 1 THEN LegacyFileHeader(9)
    ELSE LegacyFileHeader(9) \o LegacyFileHeader(1100)

LegacyStream(n, tail) ==
    GENERAL_DIR_SIG_4_0 \o LegacyArchiveHeader \o LegacyFiles(n) \o tail

LegacyStreams ==
    {LegacyStream(n, tail) :
        n \in 0..2,
        tail \in {<<>>, LegacyTerminator(0), LegacyTerminator(16384)}}

\* Main and End headers with the DataArea flag and a data area of the
\* given length.
MainHeaderWithData(data) ==
    Header(287454020,
           EncVint(HeaderType_MainArchive) \o EncVint(2) \o EncVint(data)
           \o EncVint(0))
    \o [i \in 1..data |-> DataByte(i)]

EndHeaderWithData(data) ==
    Header(1432778632,
           EncVint(HeaderType_EndOfArchive) \o EncVint(2) \o EncVint(data)
           \o EncVint(0))
    \o [i \in 1..data |-> DataByte(i)]

\* Streams whose Main or End header carries a data area.
DataAreaStreams ==
    {GENERAL_DIR_SIG_5_0 \o MainHeaderWithData(4)
        \o FileHeader(NameA, FALSE, <<>>, 5) \o EndHeader,
     GENERAL_DIR_SIG_5_0 \o MainHeader(<<>>)
        \o FileHeader(NameA, FALSE, <<>>, 5) \o EndHeaderWithData(4),
     GENERAL_DIR_SIG_5_0 \o MainHeader(<<>>) \o EndHeaderWithData(6)
        \o Stub(3)}

\* Records of types the parser does not know: type 1 with two data bytes,
\* type 5 without data, the two-byte type 130 with one data byte, and
\* type 7 whose data reads like a Time record.
UnknownRecords ==
    <<OtherRecord,
      EncVint(1) \o EncVint(5),
      EncVint(3) \o EncVint(130) \o <<200>>,
      EncVint(1 + Len(TimeRecord(3))) \o EncVint(7) \o TimeRecord(3)>>

\* Extra areas as sequences of records: [time |-> TRUE, n |-> flags] is
\* the Time record of these flags, [time |-> FALSE, n |-> k] the k-th
\* unknown record.
Time(flags) == [time |-> TRUE, n |-> flags]

Unknown(k) == [time |-> FALSE, n |-> k]

FramedAreas ==
    {<<>>,
     <<Time(3)>>, <<Unknown(1), Time(3)>>, <<Time(3), Unknown(2)>>,
     <<Unknown(3), Time(3)>>, <<Unknown(4), Time(3)>>,
     <<Unknown(2), Unknown(3), Time(14), Unknown(1)>>,
     <<Unknown(1), Unknown(4)>>,
     <<Time(5), Unknown(4), Time(12)>>}

RecordBytes(record) ==
    IF record.time THEN TimeRecord(record.n) ELSE UnknownRecords[record.n]

RECURSIVE AreaBytes(_)
AreaBytes(area) ==
    IF area = <<>> THEN <<>>
    ELSE RecordBytes(Head(area)) \o AreaBytes(Tail(area))

\* A File header with the ExtraArea flag and the given extra area, which
\* may be empty.
FileHeaderWithExtra(name, extra) ==
    Header(1146447479,
           EncVint(HeaderType_File) \o EncVint(1) \o EncVint(Len(extra))
           \o EncVint(0) \o EncVint(0) \o EncVint(32)
           \o EncVint(128 + 3) \o EncVint(1)
           \o EncVint(Len(name)) \o name
           \o extra)

FramedStream(area) ==
    GENERAL_DIR_SIG_5_0 \o MainHeader(<<>>)
    \o FileHeaderWithExtra(NameB, AreaBytes(area)) \o EndHeader

FramedStreams == {FramedStream(area) : area \in FramedAreas}

\* Files of the zip crate: a stub, then a local file header with its
\* contents.  Deflated contents are one or two stored blocks.
ZipTexts == {<<>>, Hello, Text(40)}

Stored(final, text) ==
    <<IF final THEN 1 ELSE 0, Len(text), 0, 255 - Len(text), 255>> \o text

Deflated(text) ==
    IF Len(text) < 10 THEN Stored(TRUE, text)
    ELSE Stored(FALSE, SubSeq(text, 1, 10))
         \o Stored(TRUE, SubSeq(text, 11, Len(text)))

ZipContents(method, text) ==
    IF method = CompressionType_Deflate THEN Deflated(text) ELSE text

LocalFile(method, text) ==
    LOCAL_FILE_HEADER_SIG \o EncU16(20) \o EncU16(0) \o EncU16(method)
    \o EncU16(29000) \o EncU16(21000) \o EncU32(305419896)
    \o EncU32(Len(ZipContents(method, text))) \o EncU32(Len(text))
    \o EncU16(Len(NameA)) \o EncU16(4) \o NameA \o <<85, 84, 0, 0>>
    \o ZipContents(method, text)

\* Offsets of the local file header: the start of the file, and one that
\* puts the header across the end of the first window.
ZipOffsets == {0, 985}

\* Compression methods: the defined ones and some that are not.
ZipMethods == CompressionType_all \cup {11, 13, 100}

ZipFile(offset, method, text) == Stub(offset) \o LocalFile(method, text) \o Stub(3)

ZipFiles ==
    {ZipFile(offset, method, text) :
        offset \in ZipOffsets, method \in ZipMethods, text \in ZipTexts}

\* The nanosecond suffix of the k-th timestamp: four bytes when the
\* timestamp is present.
NanoSuffix(flags, k) ==
    IF HasBit(flags, k) THEN EncU32(100000000 * k + 7) ELSE <<>>

\* A Time record with UnixNanoSuffix: the timestamps, then one suffix per
\* present timestamp.
NanoRecord(flags) ==
    EncVint(Len(EncVint(FILE_TIME_RECORD)) + Len(TimeRecordData(flags))
            + Len(NanoSuffix(flags, 1) \o NanoSuffix(flags, 2)
                  \o NanoSuffix(flags, 3)))
    \o EncVint(FILE_TIME_RECORD) \o TimeRecordData(flags)
    \o NanoSuffix(flags, 1) \o NanoSuffix(flags, 2) \o NanoSuffix(flags, 3)

\* Flags with UnixNanoSuffix: Unix format with modification only, with
\* modification and creation, with all three, with creation only, and
\* Windows format with modification.
NanoFlagCombos == {19, 23, 31, 21, 18}

\* The record is the last one of the extra area, or an unknown record
\* follows it.
NanoStream(flags, last) ==
    GENERAL_DIR_SIG_5_0 \o MainHeader(<<>>)
    \o FileHeaderWithExtra(NameB,
           NanoRecord(flags) \o (IF last THEN <<>> ELSE UnknownRecords[4]))
    \o EndHeader

NanoStreams ==
    {NanoStream(flags, last) : flags \in NanoFlagCombos, last \in BOOLEAN}

\* Legacy probes: the signature, one 7-byte header of the given type byte
\* and raw flags, then a filler that reads as 9 in the low and 7 in the
\* high half of a 64-bit field and as zeros after it.
LegacyFiller == <<9, 0, 0, 0, 7, 0, 0, 0>> \o [i \in 1..92 |-> 0]

LegacyProbe(type_byte, flags) ==
    GENERAL_DIR_SIG_4_0 \o EncU16(4660) \o <<type_byte>> \o EncU16(flags)
    \o EncU16(7) \o LegacyFiller

LegacyTypeBytes == {0, 5, 255} \cup (112..126)

LegacyTypeStreams == {LegacyProbe(b, 0) : b \in LegacyTypeBytes}

\* Raw flag fields of the probes: the add-size bits 0x0001 and 0x8000, the
\* dictionary bits 5-7, the UNKNOWN bits and an undefined bit.
LegacyProbeFlags == {1, 32, 96, 128, 224, 256, 32768, 32769, 36960}

LegacyFlagStreams ==
    {LegacyProbe(type_byte, flags) :
        type_byte \in {HeaderType4_0_Archive, HeaderType4_0_File},
        flags \in LegacyProbeFlags}

\* A legacy File header whose name field holds the given bytes and whose
\* packed data is three bytes long.
LegacyNamedFile(name) ==
    EncU16(4660) \o <<HeaderType4_0_File>> \o EncU16(36896)
    \o EncU16(32 + Len(name))
    \o EncU32(3) \o EncU32(6) \o <<2>> \o EncU32(305419896)
    \o EncU32(1390000000) \o <<29, 51>> \o EncU16(Len(name)) \o EncU32(32)
    \o name \o <<1, 2, 3>>

LegacyNameLengths == {5, 23, 30}

LegacyNameStreams ==
    {GENERAL_DIR_SIG_4_0 \o LegacyArchiveHeader
     \o LegacyNamedFile([i \in 1..n |-> 97 + (i % 26)])
     \o LegacyNamedFile([i \in 1..n |-> 65 + (i % 26)])
     \o LegacyTerminator(0) : n \in LegacyNameLengths}

\* Files without a signature, one window long: the first m bytes of the
\* legacy signature are the last bytes of the file, and the other bytes of
\* the signature stand at the offsets SIGNATURE_SIZE - 1.. of the file,
\* where the second read of the loop (of SIGNATURE_SIZE - 1 bytes) leaves
\* them in the window.
SplitSignature(m) ==
    [i \in 1..BUFFER_SIZE |->
        IF i > BUFFER_SIZE - m
        THEN GENERAL_DIR_SIG_4_0[i - (BUFFER_SIZE - m)]
        ELSE IF i >= SIGNATURE_SIZE /\ i <= 2 * SIGNATURE_SIZE - 1 - m
             THEN GENERAL_DIR_SIG_4_0[m + i - (SIGNATURE_SIZE - 1)]
             ELSE 0]

\* The legacy signature without its last byte, which is 0.
CutSignature == SubSeq(GENERAL_DIR_SIG_4_0, 1, SIGNATURE_SIZE - 1)

SplitSignatureFiles ==
    {SplitSignature(m) : m \in 1..(SIGNATURE_SIZE - 1)} \cup {CutSignature}

\* Zip archives: local files, the central directory (one record per local
\* file) and the end of central directory record declaring a record count.
EntryName(i) == <<96 + i>> \o <<46, 116, 120, 116>>

EntryText(i) == Text(3 + i)

EntryMethod(i) ==
    IF i % 2 = 0 THEN CompressionType_Deflate ELSE CompressionType_None

RECURSIVE LocalsUpTo(_)
LocalsUpTo(n) ==
    IF n = 0 THEN <<>>
    ELSE LocalsUpTo(n - 1) \o LocalFile(EntryMethod(n), EntryText(n))

CentralRecord(i, offset) ==
    CENTRAL_DIR_SIG \o EncU16(798) \o EncU16(20) \o EncU16(0)
    \o EncU16(EntryMethod(i)) \o EncU16(29000) \o EncU16(21000)
    \o EncU32(305419896)
    \o EncU32(Len(ZipContents(EntryMethod(i), EntryText(i))))
    \o EncU32(Len(EntryText(i)))
    \o EncU16(Len(EntryName(i))) \o EncU16(4) \o EncU16(i % 3)
    \o EncU16(0) \o EncU16(0) \o EncU32(32) \o EncU32(offset)
    \o EntryName(i) \o <<85, 84, 0, 0>> \o Text(i % 3)

RECURSIVE CentralsUpTo(_, _)
CentralsUpTo(prefix, n) ==
    IF n = 0 THEN <<>>
    ELSE CentralsUpTo(prefix, n - 1)
         \o CentralRecord(n, prefix + Len(LocalsUpTo(n - 1)))

Eocd(count, size_of, curr_offset, comment) ==
    END_CENTRAL_DIR_SIG \o EncU16(0) \o EncU16(0) \o EncU16(count)
    \o EncU16(count) \o EncU32(size_of) \o EncU32(curr_offset)
    \o EncU16(Len(comment)) \o comment

\* n entries of which the end record declares the given count, behind a
\* stub that puts the first central record at the given offset.
ZipArchive(first, n, declared) ==
    Stub(first - Len(LocalsUpTo(n)))
    \o LocalsUpTo(n)
    \o CentralsUpTo(first - Len(LocalsUpTo(n)), n)
    \o Eocd(declared, Len(CentralsUpTo(0, n)), first, Hello)

\* Entries in the file and the declared count: equal, fewer declared than
\* there are, none at all.
ZipCounts == {<<0, 0>>, <<1, 1>>, <<2, 2>>, <<2, 1>>, <<5, 5>>, <<5, 2>>, <<5, 4>>}

\* Offsets of the first central record: right after the local files (0),
\* where its fixed part crosses the end of the first window, and where its
\* signature does.
ZipFirsts == {0, 960, 998}

ZipArchives ==
    {ZipArchive(IF first = 0 THEN Len(LocalsUpTo(c[1])) ELSE first, c[1], c[2]) :
        first \in ZipFirsts, c \in ZipCounts}

\* End records without entries at offsets around the window ends of the
\* search (windows start 997 bytes apart), with and without a comment.
EocdOffsets == {0, 1, 500} \cup (976..979) \cup (994..1000) \cup (1991..1996)

EocdFiles ==
    {Stub(s) \o Eocd(0, 0, s, comment) :
        s \in EocdOffsets, comment \in {<<>>, Hello}}

\* Files of one window without an end record: the first m bytes of its
\* signature are the last bytes of the file and the other bytes stand at
\* the offsets 3.. of the file, where the second read of the search (of 3
\* bytes) leaves them in the window.
SplitEocd(m) ==
    [i \in 1..BUFFER_SIZE |->
        IF i > BUFFER_SIZE - m THEN END_CENTRAL_DIR_SIG[i - (BUFFER_SIZE - m)]
        ELSE IF i >= ZIP_SIGNATURE_SIZE /\ i <= 2 * ZIP_SIGNATURE_SIZE - 1 - m
             THEN END_CENTRAL_DIR_SIG[m + i - (ZIP_SIGNATURE_SIZE - 1)]
             ELSE StubByte(i)]

SplitEocdFiles == {SplitEocd(m) : m \in 1..(ZIP_SIGNATURE_SIZE - 1)}

ArchiveFiles == ZipArchives \cup EocdFiles \cup PlainFiles \cup SplitEocdFiles

\* Number of cache operations applied to an open archive.
MaxZipOps == 3

ParseFiles ==
    StubbedArchives \cup VolumeArchives \cup BrokenArchives
    \cup SignatureFiles \cup PlainFiles \cup DispatchStreams
    \cup HeadlessStreams \cup TruncatedStreams \cup RepeatedMainStreams
    \cup BadHeaderFlagStreams \cup BadTypedFlagStreams
    \cup OverrunStreams \cup TextStreams \cup TimeStreams
    \cup TickStreams \cup UnknownTypeStreams
    \cup ServiceStreams \cup LegacyStreams
    \cup DataAreaStreams \cup FramedStreams \cup NanoStreams
    \cup LegacyTypeStreams \cup LegacyFlagStreams \cup LegacyNameStreams
    \cup SplitSignatureFiles

(***************************************************************************)
(* State.                                                                  *)
(***************************************************************************)
VARIABLES
    file,              \* the bytes of the file being parsed
    fpos,              \* File: stream position
    buffer,            \* Archive::parse: let mut buffer = [0u8; BUFFER_SIZE]
    index,             \* ArchiveReader.index
    last_read_amount,  \* ArchiveReader.last_read_amount
    is_v_5_0,          \* ArchiveReader.is_v_5_0
    overflow_checks,   \* whether the build checks arithmetic overflow
    pc,                \* position of Archive::parse
    main_archive,      \* Archive::parse: Option<MainArchiveHeader>
    files,             \* Archive::parse: Vec<FileArchiveHeader>
    end_of_archive,    \* Archive::parse: Option<EndOfArchiveHeader>
    result,            \* what Archive::parse returned ("" while it runs)
    scan,              \* what the last find_signature_pos returned (-2: none yet)
    sig_at,            \* file offset of the matched signature, -1 if none
    cur,               \* file offset the operations so far have consumed up to
    op,                \* the last completed reader operation and its return
    sti,               \* the last call of seek_to_index: state before and after
    nops,              \* number of harness operations applied
    error_flag,        \* the flag of a returned Error::InvalidBitFlag, in <<>>
    seen,              \* the types of the headers the modern loop has parsed
    general,           \* the last GeneralHeader::parse: where it began and ended
    contents,          \* the last FileArchiveHeader::read: the entry and the return
    end_header,        \* zip Archive.end_header, in <<>> once it is parsed
    file_cache         \* zip Archive.file_cache: FileReaderCache

reader_vars == <<fpos, buffer, index, last_read_amount>>

parsed_vars == <<main_archive, files, end_of_archive>>

ghost_vars == <<cur, op, sti, nops>>

trace_vars == <<error_flag, seen, general, contents>>

zip_vars == <<end_header, file_cache>>

vars == <<file, fpos, buffer, index, last_read_amount, is_v_5_0,
          overflow_checks, pc, main_archive, files, end_of_archive, result,
          scan, sig_at, cur, op, sti, nops, error_flag, seen, general,
          contents, end_header, file_cache>>

Rd == [fpos |-> fpos, buffer |-> buffer, index |-> index,
       last_read_amount |-> last_read_amount]

SetRd(R) ==
    /\ fpos' = R.fpos
    /\ buffer' = R.buffer
    /\ index' = R.index
    /\ last_read_amount' = R.last_read_amount

NoOp == [name |-> "none", arg |-> 0, status |-> "ok", v |-> 0, p0 |-> 0,
         index0 |-> 0]

NoSti == [called |-> FALSE, full |-> FALSE, index0 |-> 0, pos0 |-> 0,
          index1 |-> 0, pos1 |-> 0]

\* The record of a call of seek_to_index in reader state R.
StiOf(R, f) ==
    [called |-> TRUE, full |-> R.last_read_amount = BUFFER_SIZE,
     index0 |-> R.index, pos0 |-> get_seek_position(R),
     index1 |-> seek_to_index(R, f).index,
     pos1 |-> get_seek_position(seek_to_index(R, f))]

NoRead == [entry |-> 0, zeroed |-> FALSE, status |-> "none", v |-> <<>>]

\* Archive::parse up to the loop: ArchiveReader::init(&mut file, false).
InitAt(inputs, start) ==
    /\ file \in inputs
    /\ fpos = init_reader.fpos
    /\ buffer = init_reader.buffer
    /\ index = init_reader.index
    /\ last_read_amount = init_reader.last_read_amount
    /\ is_v_5_0 = FALSE
    /\ overflow_checks \in BOOLEAN
    /\ pc = start
    /\ main_archive = <<>>
    /\ files = <<>>
    /\ end_of_archive = <<>>
    /\ result = ""
    /\ scan = -2
    /\ sig_at = -1
    /\ cur = -1
    /\ op = NoOp
    /\ sti = NoSti
    /\ nops = 0
    /\ error_flag = <<>>
    /\ seen = <<>>
    /\ general = [status |-> "none", p0 |-> 0, p1 |-> 0, v |-> <<>>]
    /\ contents = NoRead
    /\ end_header = <<>>
    /\ file_cache = FileReaderCache_default

InitOn(inputs) == InitAt(inputs, "search")

(***************************************************************************)
(* Archive::parse: the signature loop (lib.rs 93-116, 271-279).            *)
(***************************************************************************)
\* The reader after "last_read_amount = file.read(&mut buffer); index = 0".
LoopRead == seek_next(Rd, file)

\* Mutant: the seek goes back over the whole window.
seek_back_window(R) == [R EXCEPT !.fpos = R.fpos - BUFFER_SIZE]

\* "reader.file.seek(SeekFrom::Current(1 - SIGNATURE_SIZE as i64))"
seek_back(R) == [R EXCEPT !.fpos = R.fpos + (1 - SIGNATURE_SIZE)]

\* "is_v_5_0 = buffer[index..index + GENERAL_DIR_SIG_5_0.len()] == SIG_5_0"
is_modern_at(R) ==
    SubSeq(R.buffer, R.index + 1, R.index + Len(GENERAL_DIR_SIG_5_0))
        = GENERAL_DIR_SIG_5_0

\* A read in which find_signature_pos matches: index and is_v_5_0 are set.
SigFound ==
    /\ pc = "search"
    /\ LET R == LoopRead
           at == find_signature_pos(R.buffer, R.index)
       IN  /\ at # -1
           /\ SetRd([R EXCEPT !.index = at])
           /\ is_v_5_0' = is_modern_at([R EXCEPT !.index = at])
           /\ scan' = at
           /\ sig_at' = fpos + at
           /\ cur' = fpos + at
    /\ pc' = "found"
    /\ UNCHANGED trace_vars
    /\ UNCHANGED <<file, zip_vars, overflow_checks, parsed_vars, result, op, sti, nops>>

\* A full read without a match: seek back by SIGNATURE_SIZE - 1 and loop.
SigSeekBack ==
    /\ pc = "search"
    /\ LET R == LoopRead
       IN  /\ find_signature_pos(R.buffer, R.index) = -1
           /\ ~(R.last_read_amount < BUFFER_SIZE)
           /\ SetRd(seek_back(R))
    /\ scan' = -1
    /\ UNCHANGED trace_vars
    /\ UNCHANGED <<file, zip_vars, is_v_5_0, overflow_checks, pc, parsed_vars, result,
                   sig_at, ghost_vars>>

\* A short read without a match ends the loop and the parse returns.
SigMissing ==
    /\ pc = "search"
    /\ LET R == LoopRead
       IN  /\ find_signature_pos(R.buffer, R.index) = -1
           /\ R.last_read_amount < BUFFER_SIZE
           /\ SetRd(R)
    /\ scan' = -1
    /\ pc' = "done"
    /\ result' = parse_result(is_v_5_0, main_archive, end_of_archive)
    /\ UNCHANGED trace_vars
    /\ UNCHANGED <<file, zip_vars, is_v_5_0, overflow_checks, parsed_vars, sig_at,
                   ghost_vars>>

\* "if reader.index + GENERAL_DIR_SIZE_KNOWN >= buffer.len() { seek_to_index }"
align_signature(R, f) ==
    IF R.index + GENERAL_DIR_SIZE_KNOWN >= BUFFER_SIZE
    THEN seek_to_index(R, f) ELSE R

SigAlign ==
    /\ pc = "found"
    /\ SetRd(align_signature(Rd, file))
    /\ IF index + GENERAL_DIR_SIZE_KNOWN >= BUFFER_SIZE
       THEN /\ sti' = StiOf(Rd, file)
            /\ op' = [name |-> "seek_to_index", arg |-> 0, status |-> "ok",
                      v |-> 0, p0 |-> cur, index0 |-> index]
       ELSE UNCHANGED <<sti, op>>
    /\ pc' = "skip"
    /\ UNCHANGED trace_vars
    /\ UNCHANGED <<file, zip_vars, is_v_5_0, overflow_checks, parsed_vars, result, scan,
                   sig_at, cur, nops>>

SigLen(v5) == IF v5 THEN Len(GENERAL_DIR_SIG_5_0) ELSE Len(GENERAL_DIR_SIG_4_0)

SigBytes(v5) == IF v5 THEN GENERAL_DIR_SIG_5_0 ELSE GENERAL_DIR_SIG_4_0

\* The assert_eq! on the signature bytes (it holds: the refill reads the
\* same bytes again), then skip::<8>() or skip::<7>().
SigSkip ==
    /\ pc = "skip"
    /\ SigAt(buffer, index, SigBytes(is_v_5_0))
    /\ SetRd(skip(Rd, SigLen(is_v_5_0)))
    /\ cur' = cur + SigLen(is_v_5_0)
    /\ op' = [name |-> "skip", arg |-> SigLen(is_v_5_0), status |-> "ok",
              v |-> 0, p0 |-> cur, index0 |-> index]
    /\ pc' = IF is_v_5_0 THEN "headers5" ELSE "headers4"
    /\ UNCHANGED trace_vars
    /\ UNCHANGED <<file, zip_vars, is_v_5_0, overflow_checks, parsed_vars, result, scan,
                   sig_at, sti, nops>>

(***************************************************************************)
(* Archive::parse: the header loops, one header per step.                  *)
(***************************************************************************)
ModernTurn == modern_header(Rd, file, overflow_checks)

\* The GeneralHeader::parse of this turn: its outcome and the positions
\* before and after it.
GeneralOf(g) ==
    [status |-> g.status, p0 |-> get_seek_position(Rd),
     p1 |-> get_seek_position(g.r), v |-> g.v]

\* The arms of the match on the header type, for the header of this turn.
MainArm(turn, g) ==
    /\ turn.status = "ok"
    /\ turn.v.general_header.type_of = HeaderType_MainArchive
    /\ SetRd(turn.r)
    /\ main_archive' = <<turn.v>>
    /\ seen' = Append(seen, turn.v.general_header.type_of)
    /\ general' = GeneralOf(g)

\* Mutant: the parsed file is put in front of the list.
FileArm_prepend(turn, g) ==
    /\ turn.status = "ok"
    /\ turn.v.general_header.type_of = HeaderType_File
    /\ SetRd(turn.r)
    /\ files' = <<turn.v>> \o files
    /\ seen' = Append(seen, turn.v.general_header.type_of)
    /\ general' = GeneralOf(g)

FileArm(turn, g) ==
    /\ turn.status = "ok"
    /\ turn.v.general_header.type_of = HeaderType_File
    /\ SetRd(turn.r)
    /\ files' = Append(files, turn.v)
    /\ seen' = Append(seen, turn.v.general_header.type_of)
    /\ general' = GeneralOf(g)

EndArm(turn, g) ==
    /\ turn.status = "ok"
    /\ turn.v.general_header.type_of = HeaderType_EndOfArchive
    /\ SetRd(turn.r)
    /\ end_of_archive' = <<turn.v>>
    /\ result' = parse_result(is_v_5_0, main_archive, <<turn.v>>)
    /\ seen' = Append(seen, turn.v.general_header.type_of)
    /\ general' = GeneralOf(g)

FailedTurn(turn, g) ==
    /\ turn.status # "ok"
    /\ SetRd(turn.r)
    /\ result' = turn.status
    /\ error_flag' = turn.v
    /\ general' = GeneralOf(g)

ParseMain ==
    /\ pc = "headers5"
    /\ MainArm(ModernTurn, GeneralHeader_parse(Rd, file, overflow_checks))
    /\ UNCHANGED <<error_flag, contents>>
    /\ UNCHANGED <<file, zip_vars, is_v_5_0, overflow_checks, pc, files, end_of_archive,
                   result, scan, sig_at, ghost_vars>>

ParseFile ==
    /\ pc = "headers5"
    /\ FileArm(ModernTurn, GeneralHeader_parse(Rd, file, overflow_checks))
    /\ UNCHANGED <<error_flag, contents>>
    /\ UNCHANGED <<file, zip_vars, is_v_5_0, overflow_checks, pc, main_archive,
                   end_of_archive, result, scan, sig_at, ghost_vars>>

\* The End header breaks out of both loops and the result is built.
ParseEnd ==
    /\ pc = "headers5"
    /\ EndArm(ModernTurn, GeneralHeader_parse(Rd, file, overflow_checks))
    /\ pc' = "done"
    /\ UNCHANGED <<error_flag, contents>>
    /\ UNCHANGED <<file, zip_vars, is_v_5_0, overflow_checks, main_archive, files, scan,
                   sig_at, ghost_vars>>

\* An error value (the ? operator) or a panic ends the parse.
ParseModernFails ==
    /\ pc = "headers5"
    /\ FailedTurn(ModernTurn, GeneralHeader_parse(Rd, file, overflow_checks))
    /\ pc' = "done"
    /\ UNCHANGED <<seen, contents>>
    /\ UNCHANGED <<file, zip_vars, is_v_5_0, overflow_checks, parsed_vars, scan, sig_at,
                   ghost_vars>>

LegacyTurn == legacy_header(Rd, file)

\* An Archive or File header of the legacy loop, which has no break.
ParseLegacy ==
    /\ pc = "headers4"
    /\ LegacyTurn.status = "ok"
    /\ SetRd(LegacyTurn.r)
    /\ general' = GeneralOf(GeneralHeader4_parse(Rd, file))
    /\ UNCHANGED <<error_flag, seen, contents>>
    /\ UNCHANGED <<file, zip_vars, is_v_5_0, overflow_checks, pc, parsed_vars, result,
                   scan, sig_at, ghost_vars>>

ParseLegacyFails ==
    /\ pc = "headers4"
    /\ LegacyTurn.status # "ok"
    /\ SetRd(LegacyTurn.r)
    /\ pc' = "done"
    /\ result' = LegacyTurn.status
    /\ error_flag' = LegacyTurn.v
    /\ general' = GeneralOf(GeneralHeader4_parse(Rd, file))
    /\ UNCHANGED <<seen, contents>>
    /\ UNCHANGED <<file, zip_vars, is_v_5_0, overflow_checks, parsed_vars, scan, sig_at,
                   ghost_vars>>

\* After a successful parse the caller reads the contents of one entry with
\* a reader from ArchiveReader::init and a window of its own: a zeroed
\* array, or one that still holds what the parse left in it.
ReadEntry(entry, zeroed, res) ==
    /\ SetRd(res.r)
    /\ contents' = [entry |-> entry, zeroed |-> zeroed, status |-> res.status,
                    v |-> res.v]

ReadFile ==
    /\ pc = "done" /\ result = "Ok(Five)"
    /\ \E entry \in 1..Len(files), zeroed \in BOOLEAN :
          ReadEntry(entry, zeroed,
                    FileArchiveHeader_read(
                        files[entry],
                        [init_reader EXCEPT
                            !.buffer = IF zeroed THEN init_reader.buffer
                                       ELSE buffer],
                        file))
    /\ pc' = "read"
    /\ UNCHANGED <<error_flag, seen, general>>
    /\ UNCHANGED <<file, zip_vars, is_v_5_0, overflow_checks, parsed_vars, result, scan,
                   sig_at, ghost_vars>>

Next ==
    \/ SigFound \/ SigSeekBack \/ SigMissing \/ SigAlign \/ SigSkip
    \/ ParseMain \/ ParseFile \/ ParseEnd \/ ParseModernFails
    \/ ParseLegacy \/ ParseLegacyFails \/ ReadFile

Init == InitOn(ParseFiles)

Spec == Init /\ [][Next]_vars

\* The signature loop alone, on the files without a signature and on the
\* legacy archives behind a stub that ends around a window end.
SearchFiles ==
    PlainFiles \cup {Stub(s) \o LegacyArchive(9) : s \in SignatureOffsets}

\* Archive::parse is one sequential task: a turn of the loop that can be
\* taken is taken.
SearchNext == SigFound \/ SigSeekBack \/ SigMissing

SpecSearch ==
    /\ InitOn(SearchFiles)
    /\ [][SearchNext]_vars
    /\ WF_vars(SearchNext)

(***************************************************************************)
(* Archive::parse as one function of the file (lib.rs 84-293).             *)
(***************************************************************************)
RECURSIVE signature_loop(_, _)
signature_loop(R, f) ==
    LET R1 == seek_next(R, f)
        at == find_signature_pos(R1.buffer, R1.index)
    IN  IF at # -1 THEN [found |-> TRUE, r |-> [R1 EXCEPT !.index = at]]
        ELSE IF R1.last_read_amount < BUFFER_SIZE THEN [found |-> FALSE, r |-> R1]
        ELSE signature_loop(seek_back(R1), f)

RECURSIVE modern_loop(_, _, _, _, _)
modern_loop(R, f, oc, main, fs) ==
    LET t == modern_header(R, f, oc)
    IN  IF t.status # "ok"
        THEN [result |-> t.status, main_archive |-> main, files |-> fs,
              end_of_archive |-> <<>>]
        ELSE IF t.v.general_header.type_of = HeaderType_MainArchive
             THEN modern_loop(t.r, f, oc, <<t.v>>, fs)
        ELSE IF t.v.general_header.type_of = HeaderType_File
             THEN modern_loop(t.r, f, oc, main, Append(fs, t.v))
        ELSE [result |-> parse_result(TRUE, main, <<t.v>>),
              main_archive |-> main, files |-> fs, end_of_archive |-> <<t.v>>]

RECURSIVE legacy_loop(_, _)
legacy_loop(R, f) ==
    LET t == legacy_header(R, f)
    IN  IF t.status # "ok"
        THEN [result |-> t.status, main_archive |-> <<>>, files |-> <<>>,
              end_of_archive |-> <<>>]
        ELSE legacy_loop(t.r, f)

Archive_parse(f, oc) ==
    LET s == signature_loop(init_reader, f)
    IN  IF ~s.found
        THEN [result |-> parse_result(FALSE, <<>>, <<>>), main_archive |-> <<>>,
              files |-> <<>>, end_of_archive |-> <<>>]
        ELSE LET v5 == is_modern_at(s.r)
                 R == skip(align_signature(s.r, f), SigLen(v5))
             IN  IF v5 THEN modern_loop(R, f, oc, <<>>, <<>>)
                 ELSE legacy_loop(R, f)

(***************************************************************************)
(* Harness: the reader's operations applied one at a time, in the states   *)
(* the header parsers call them in (after the signature has been skipped). *)
(***************************************************************************)
InHeaders == pc \in {"headers5", "headers4"}

\* The length of the vint encoding that starts at file offset p.
RECURSIVE FileVintLen(_, _)
FileVintLen(f, p) ==
    IF p < Len(f) /\ f[p + 1] >= 128 THEN 1 + FileVintLen(f, p + 1) ELSE 1

\* Record operation name with argument arg and outcome res, which by its
\* contract consumes n bytes.
Apply(name, arg, res, n) ==
    /\ SetRd(res.r)
    /\ op' = [name |-> name, arg |-> arg, status |-> res.status, v |-> res.v,
              p0 |-> cur, index0 |-> index]
    /\ cur' = cur + n
    /\ nops' = nops + 1
    /\ pc' = IF res.status = "ok" THEN pc ELSE "done"
    /\ result' = IF res.status = "ok" THEN result ELSE res.status
    /\ UNCHANGED trace_vars
    /\ UNCHANGED <<file, zip_vars, is_v_5_0, overflow_checks, parsed_vars, scan, sig_at>>

\* GeneralHeader::parse follows a data-area advance and starts with next_u32.
MayRead == InHeaders /\ nops < MaxOps /\ op.name # "advance"

DriveU8 ==
    /\ MayRead
    /\ Apply("next_u8", 1, next_u8(Rd, file), 1)
    /\ UNCHANGED sti

DriveU16 ==
    /\ MayRead
    /\ Apply("next_u16", 2, next_u16(Rd, file), 2)
    /\ UNCHANGED sti

DriveU32 ==
    /\ InHeaders /\ nops < MaxOps
    /\ Apply("next_u32", 4, next_u32(Rd, file), 4)
    /\ sti' = IF index + 4 >= BUFFER_SIZE THEN StiOf(Rd, file) ELSE sti

DriveU64 ==
    /\ MayRead
    /\ Apply("next_u64", 8, next_u64(Rd, file), 8)
    /\ UNCHANGED sti

DriveVint ==
    /\ MayRead
    /\ Apply("next_vint", 0, next_vint(Rd, file, overflow_checks),
             FileVintLen(file, cur))
    /\ UNCHANGED sti

DriveChunk ==
    /\ MayRead
    /\ \E size \in ChunkSizes :
          Apply("get_chunk_amount", size, get_chunk_amount(Rd, file, size), size)
    /\ UNCHANGED sti

\* The data-area step of FileArchiveHeader::parse.
DriveAdvance ==
    /\ MayRead
    /\ \E d \in AdvanceSizes :
          /\ Apply("advance", d,
                   [status |-> "ok", r |-> data_area_advance(Rd, file, d),
                    v |-> get_seek_position(Rd)], d)
          /\ sti' = IF index + d > BUFFER_SIZE
                    THEN StiOf(skip(Rd, d), file) ELSE sti

\* seek_to(a) on the reader as the operations before left it.
Sought(a, R) ==
    /\ SetRd(R)
    /\ op' = [name |-> "seek_to", arg |-> a, status |-> "ok",
              v |-> get_seek_position(R), p0 |-> cur, index0 |-> index]
    /\ cur' = a

DriveSeekTo ==
    /\ MayRead
    /\ \E a \in SeekTargets : Sought(a, seek_to(Rd, a))
    /\ nops' = nops + 1
    /\ pc' = "sought"
    /\ UNCHANGED trace_vars
    /\ UNCHANGED <<file, zip_vars, is_v_5_0, overflow_checks, parsed_vars, result, scan,
                   sig_at, sti>>

\* The first read after a seek_to, with the same window.
ReadAfterSeek(size, res) ==
    /\ SetRd(res.r)
    /\ op' = [name |-> "read_after_seek", arg |-> size, status |-> res.status,
              v |-> res.v, p0 |-> cur, index0 |-> index]
    /\ cur' = cur + size

DriveReadAfterSeek ==
    /\ pc = "sought"
    /\ \E size \in SeekReadSizes :
          ReadAfterSeek(size, get_chunk_amount(Rd, file, size))
    /\ pc' = "done"
    /\ UNCHANGED trace_vars
    /\ UNCHANGED <<file, zip_vars, is_v_5_0, overflow_checks, parsed_vars, result, scan,
                   sig_at, sti, nops>>

NextReader ==
    \/ SigFound \/ SigSeekBack \/ SigAlign \/ SigSkip
    \/ DriveU8 \/ DriveU16 \/ DriveU32 \/ DriveU64 \/ DriveVint
    \/ DriveChunk \/ DriveAdvance
    \/ DriveSeekTo \/ DriveReadAfterSeek

InitReader == InitOn(ReaderFiles)

SpecReader == InitReader /\ [][NextReader]_vars

(***************************************************************************)
(* The zip crate: CentralDirHeader::read of an entry whose relative_offset *)
(* is one of ZipOffsets, on a reader from ArchiveReader::init.             *)
(***************************************************************************)
ZipRead ==
    /\ pc = "zip"
    /\ \E relative_offset \in ZipOffsets :
          LET res == LocalFileHeader_parse(init_reader, relative_offset, file)
          IN  /\ SetRd(res.r)
              /\ contents' = [entry |-> relative_offset, zeroed |-> TRUE,
                              status |-> res.status, v |-> res.v]
    /\ pc' = "read"
    /\ UNCHANGED <<error_flag, seen, general>>
    /\ UNCHANGED <<file, zip_vars, is_v_5_0, overflow_checks, parsed_vars, result, scan,
                   sig_at, ghost_vars>>

SpecZip == InitAt(ZipFiles, "zip") /\ [][ZipRead]_vars

(***************************************************************************)
(* The zip crate: Archive::open, then find_next, list_files and reads of   *)
(* cached entries in any order.  Each operation gets a reader from         *)
(* ArchiveReader::init.                                                    *)
(***************************************************************************)
\* Archive::open after EndCentralDirHeader::find returned res: the header is
\* kept and the cache reserves total_record_count entries.
Opened(res) ==
    /\ res.status = "ok"
    /\ SetRd(res.r)
    /\ end_header' = <<res.v>>
    /\ \E capacity \in reserve(ToNat(res.v.total_record_count)) :
          file_cache' = [file_cache EXCEPT !.capacity = capacity]
    /\ pc' = "open"
    /\ UNCHANGED result

OpenFailed(res) ==
    /\ res.status # "ok"
    /\ SetRd(res.r)
    /\ result' = res.status
    /\ pc' = "done"
    /\ UNCHANGED zip_vars

ZipOpen ==
    /\ pc = "zip"
    /\ Opened(EndCentralDirHeader_find(init_reader, file))
    /\ UNCHANGED trace_vars
    /\ UNCHANGED <<file, is_v_5_0, overflow_checks, parsed_vars, scan, sig_at,
                   ghost_vars>>

ZipOpenFails ==
    /\ pc = "zip"
    /\ OpenFailed(EndCentralDirHeader_find(init_reader, file))
    /\ UNCHANGED trace_vars
    /\ UNCHANGED <<file, is_v_5_0, overflow_checks, parsed_vars, scan, sig_at,
                   ghost_vars>>

\* An operation on the open archive returned res; a panic ends the program.
CacheStep(name, arg, res) ==
    /\ SetRd(res.r)
    /\ file_cache' = res.cache
    /\ op' = [name |-> name, arg |-> arg, status |-> res.status, v |-> res.v,
              p0 |-> 0, index0 |-> 0]
    /\ seen' = Append(seen, name)
    /\ nops' = nops + 1
    /\ pc' = IF res.status = "panic" THEN "done" ELSE pc
    /\ result' = IF res.status = "panic" THEN res.status ELSE result
    /\ UNCHANGED <<file, is_v_5_0, overflow_checks, parsed_vars, scan, sig_at,
                   cur, sti, error_flag, general, contents, end_header>>

ZipFindNext ==
    /\ pc = "open" /\ nops < MaxZipOps
    /\ CacheStep("find_next", 0, find_next(file_cache, init_reader, file))

ZipListFiles ==
    /\ pc = "open" /\ nops < MaxZipOps
    /\ CacheStep("list_files", 0, list_files(file_cache, init_reader, file))

ZipReadEntry ==
    /\ pc = "open" /\ nops < MaxZipOps
    /\ \E entry \in 1..Len(file_cache.files) :
          CacheStep("read", entry,
                    read_entry(file_cache, entry, init_reader, file))

NextArchive ==
    \/ ZipOpen \/ ZipOpenFails \/ ZipFindNext \/ ZipListFiles \/ ZipReadEntry

SpecArchive == InitAt(ArchiveFiles, "zip") /\ [][NextArchive]_vars

(***************************************************************************)
(* Properties of the buffered reader, checked under SpecReader.            *)
(***************************************************************************)
\* The last operation read only bytes of the file.
OpInFile == cur <= Len(file)

\* Sum of (byte_i & 0x7F) * 2^(7 i) over the n bytes at file offset p, as
\* the set of its 1 bits: bit j comes from bit j % 7 of byte j \div 7.
VintSum(f, p, n) ==
    {j \in 0..(7 * n - 1) : (j % 7) \in Bits(f[p + (j \div 7) + 1] % 128, 7)}

RECURSIVE VintSumNat(_, _, _)
\* The same sum as a number (for encodings of at most 4 bytes).
VintSumNat(f, p, n) ==
    IF n = 0 THEN 0
    ELSE (f[p + 1] % 128) + 128 * VintSumNat(f, p + 1, n - 1)

\* The little-endian value of the n bytes at file offset p, as a bit set.
LittleEndian(f, p, n) ==
    {j \in 0..(8 * n - 1) : (j % 8) \in Bits(f[p + (j \div 8) + 1], 8)}

\* C1: for a vint encoding of k + 1 <= 9 bytes inside the file, next_vint
\* returns V = sum (byte_i & 0x7F) * 2^(7 i) and advances the reader by k + 1
\* bytes, extract_vint on the same bytes (with trailing bytes) returns
\* (k + 1, V), also when the encoding straddles a window boundary; and the
\* instances [0x01] -> (1, 1), [0xFF, 0x01] -> (2, 0xFF),
\* [0xFF, 0xFF, 0x00] -> (3, 0x3FFF) hold.
C1_VintDecoding ==
    /\ (op.name = "next_vint" /\ OpInFile /\ FileVintLen(file, op.p0) <= 9) =>
          LET n == FileVintLen(file, op.p0)
              e == extract_vint(SubSeq(file, op.p0 + 1, Len(file)), overflow_checks)
          IN  /\ op.status = "ok"
              /\ op.v = VintSum(file, op.p0, n)
              /\ n <= 4 => ToNat(op.v) = VintSumNat(file, op.p0, n)
              /\ get_seek_position(Rd) = op.p0 + n
              /\ e = [status |-> "ok", len |-> n, value |-> op.v]
    /\ LET a == extract_vint(<<1, 255, 0>>, overflow_checks)
           b == extract_vint(<<255, 1, 0>>, overflow_checks)
           c == extract_vint(<<255, 255, 0>>, overflow_checks)
       IN  /\ a.len = 1 /\ ToNat(a.value) = 1
           /\ b.len = 2 /\ ToNat(b.value) = 255
           /\ c.len = 3 /\ ToNat(c.value) = 16383

\* C1 witness: a 9-byte encoding decoded across a window refill.
C1_Witness ==
    /\ op.name = "next_vint" /\ op.status = "ok" /\ OpInFile
    /\ FileVintLen(file, op.p0) = 9
    /\ op.index0 < BUFFER_SIZE /\ op.index0 + 9 > BUFFER_SIZE

FixedWidth(name) ==
    CASE name = "next_u8" -> 1
      [] name = "next_u16" -> 2
      [] name = "next_u32" -> 4
      [] name = "next_u64" -> 8
      [] OTHER -> 0

\* C2: next_u8/u16/u32/u64 at position p with p + N <= file length returns
\* the little-endian value of file bytes [p, p + N) and leaves the reader at
\* p + N, whatever the alignment of p to the window.
C2_FixedWidthReads ==
    /\ (FixedWidth(op.name) > 0 /\ OpInFile) =>
          LET n == FixedWidth(op.name)
          IN  /\ op.status = "ok"
              /\ IF n = 1 THEN op.v = file[op.p0 + 1]
                 ELSE op.v = LittleEndian(file, op.p0, n)
              /\ n = 2 => ToNat(op.v) = file[op.p0 + 1] + 256 * file[op.p0 + 2]
              /\ get_seek_position(Rd) = op.p0 + n
    /\ ToNat(bytes_to_u32(<<120, 86, 52, 18>>)) = 305419896

\* C2 witness: a 64-bit read whose bytes cross the end of a full window.
C2_Witness ==
    /\ op.name = "next_u64" /\ op.status = "ok" /\ OpInFile
    /\ op.index0 < BUFFER_SIZE /\ op.index0 + 8 > BUFFER_SIZE

\* C3: once the signature is located, after every completed reader
\* operation that stays within the file, get_seek_position() is the file
\* offset of the next unread byte (and the buffer holds that byte there).
C3_PositionInvariant ==
    (sig_at # -1 /\ op.status = "ok" /\ cur <= Len(file)
                 /\ op.name \notin {"seek_to", "read_after_seek"}) =>
        /\ get_seek_position(Rd) = cur
        /\ index < last_read_amount => buffer[index + 1] = file[cur + 1]

\* C3 witness: a data-area advance past the window end, reseeked in file.
C3_Witness ==
    /\ op.name = "advance" /\ op.index0 + op.arg > BUFFER_SIZE
    /\ sti.called /\ sti.full /\ cur < Len(file)

\* C4 (as claimed): after every call of seek_to_index, with a full or a
\* short last read, index < window length and the position is unchanged.
C4_SeekToIndexContract ==
    sti.called => (sti.index1 < BUFFER_SIZE /\ sti.pos1 = sti.pos0)

\* C5: get_chunk_amount(n) at position p with p + n <= file length returns
\* exactly the n file bytes [p, p + n) and leaves the reader at p + n.
C5_ChunkAmount ==
    (op.name = "get_chunk_amount" /\ OpInFile) =>
        /\ op.status = "ok"
        /\ Len(op.v) = op.arg
        /\ op.v = SubSeq(file, op.p0 + 1, op.p0 + op.arg)
        /\ get_seek_position(Rd) = op.p0 + op.arg

\* C5 witness: a chunk of more than two windows, started next to a window end.
C5_Witness ==
    /\ op.name = "get_chunk_amount" /\ op.status = "ok" /\ OpInFile
    /\ op.arg > 2 * BUFFER_SIZE /\ op.index0 > 0

\* C6 (as claimed): get_chunk_amount(n) with p + n > file length fails with
\* an Io error instead of returning bytes that are not in the file.
C6_NoShortRead ==
    (op.name = "get_chunk_amount" /\ op.p0 + op.arg > Len(file)) =>
        op.status = "Err(Io)"

(***************************************************************************)
(* Properties of the signature search and of the parse as a whole.         *)
(***************************************************************************)
\* The position the search is specified to return: the smallest at >= index
\* at which either signature begins and lies inside the window, -1 if none.
FirstSignature(window, from) ==
    LET hits == {at \in from..(BUFFER_SIZE - 1) :
                    SigAt(window, at, GENERAL_DIR_SIG_4_0) \/
                    SigAt(window, at, GENERAL_DIR_SIG_5_0)}
    IN  IF hits = {} THEN -1
        ELSE CHOOSE at \in hits : \A other \in hits : at <= other

\* True when sig begins at offset s of the file f.
FileSigAt(f, s, sig) ==
    /\ s + Len(sig) <= Len(f)
    /\ \A k \in 1..Len(sig) : f[s + k] = sig[k]

\* The offset of the first signature of the file f, -1 if it has none.
FirstSignatureInFile(f) ==
    LET hits == {s \in 0..Len(f) :
                    FileSigAt(f, s, GENERAL_DIR_SIG_4_0) \/
                    FileSigAt(f, s, GENERAL_DIR_SIG_5_0)}
    IN  IF hits = {} THEN -1
        ELSE CHOOSE s \in hits : \A other \in hits : s <= other

\* The states in which buffer is the window the last scan looked at.
JustScanned ==
    /\ scan # -2
    /\ pc \in {"search", "found"} \/ (pc = "done" /\ sig_at = -1)

\* C7: find_signature_pos returns the smallest position at or after the
\* start index at which the legacy or the modern signature begins inside
\* the window, and none only when there is no such position, a legacy
\* signature in the last 7 bytes of the window included.
C7_FindSignaturePos == JustScanned => scan = FirstSignature(buffer, 0)

\* C8: whatever the offset s of the file's first signature, once the search
\* has ended the signature has been found at s, and the modern format is
\* selected exactly when the modern signature is the one at s.
C8_SplitSignatureLocated ==
    (pc # "search" /\ FirstSignatureInFile(file) # -1) =>
        /\ sig_at = FirstSignatureInFile(file)
        /\ is_v_5_0 = FileSigAt(file, sig_at, GENERAL_DIR_SIG_5_0)

\* C9: the parse of a file that holds no signature never returns an
\* Archive value of either variant.
C9_NoSignatureIsError ==
    (pc = "done" /\ FirstSignatureInFile(file) = -1) =>
        result \notin {"Ok(Four)", "Ok(Five)"}

\* The File headers fs with every recorded data-area offset moved by n.
Shifted(fs, n) ==
    [i \in 1..Len(fs) |->
        [fs[i] EXCEPT !.data_area = IF @ = <<>> THEN <<>> ELSE <<@[1] + n>>]]

\* The archive behind the stub.
Unstubbed(f) == SubSeq(f, STUB_SIZE + 1, Len(f))

\* C10: a valid modern archive behind a 512-byte stub without a signature
\* parses as the archive alone does: both succeed, with the same Main
\* header, the same File headers in the same order except that every
\* data-area offset is larger by 512, and the same End header.
C10_StubTolerance ==
    (pc = "done" /\ file \in StubbedArchives) =>
        /\ result = "Ok(Five)"
        /\ Archive_parse(Unstubbed(file), overflow_checks).result = "Ok(Five)"
        /\ main_archive = Archive_parse(Unstubbed(file), overflow_checks).main_archive
        /\ files = Shifted(Archive_parse(Unstubbed(file), overflow_checks).files,
                           STUB_SIZE)
        /\ end_of_archive
               = Archive_parse(Unstubbed(file), overflow_checks).end_of_archive

\* A stubbed archive has been parsed across a window end: two File headers,
\* the first with a data area, and the window was refilled on the way.
C10_Witness ==
    /\ pc = "done" /\ file \in StubbedArchives
    /\ result = "Ok(Five)"
    /\ Len(files) = 2 /\ files[1].data_area # <<>>
    /\ files[2].extra_area # <<>>
    /\ fpos > BUFFER_SIZE

(***************************************************************************)
(* Properties of the modern header loop.                                   *)
(***************************************************************************)
\* The sizes and the tail a well-formed stream was built from.
StreamOf(f) ==
    CHOOSE d \in StreamSizes \X StreamTails : Stream(d[1], d[2]) = f

\* The file offset at which the data area of the i-th File header starts.
DataOffset(sizes, i) ==
    Len(GENERAL_DIR_SIG_5_0 \o MainHeader(<<>>)
        \o StreamFiles(SubSeq(sizes, 1, i), 1)) - sizes[i]

\* C11: a well-formed stream signature + Main + n File headers + End parses
\* to Archive::Five whose files are the n File headers in stream order,
\* with Main and End present; the parse stops at the end of the End header,
\* whatever follows it.
C11_EndTerminates ==
    (pc = "done" /\ file \in DispatchStreams) =>
        LET sizes == StreamOf(file)[1]
            tail == StreamOf(file)[2]
        IN  /\ result = "Ok(Five)"
            /\ Len(main_archive) = 1 /\ main_archive[1].archive_flags = {}
            /\ Len(end_of_archive) = 1 /\ end_of_archive[1].archive_flags = {}
            /\ Len(files) = Len(sizes)
            /\ \A i \in 1..Len(sizes) :
                  /\ files[i].name = (IF i % 2 = 1 THEN NameA ELSE NameB)
                  /\ ToNat(files[i].general_header.data_size) = sizes[i]
                  /\ files[i].data_area
                        = (IF sizes[i] > 0 THEN <<DataOffset(sizes, i)>> ELSE <<>>)
            /\ get_seek_position(Rd) = Len(file) - Len(tail)

\* C11 witness: three File headers parsed across window refills, with
\* further headers after End that are not read.
C11_Witness ==
    /\ pc = "done" /\ result = "Ok(Five)"
    /\ file \in DispatchStreams
    /\ Len(files) = 3 /\ fpos > BUFFER_SIZE
    /\ Len(StreamOf(file)[2]) > 3

\* C12: a modern stream whose End header is reached with no Main header
\* before it fails with Error::MissingMainHeader.
C12_MissingMainHeader ==
    /\ (pc = "done" /\ file \in HeadlessStreams) =>
          (end_of_archive # <<>> /\ result = "Err(MissingMainHeader)")
    /\ (pc = "done" /\ is_v_5_0 /\ end_of_archive # <<>> /\ main_archive = <<>>) =>
          result = "Err(MissingMainHeader)"

\* C12 witness: two File headers and End were parsed, Main never was.
C12_Witness ==
    /\ pc = "done" /\ file \in HeadlessStreams
    /\ Len(files) = 2 /\ end_of_archive # <<>>
    /\ result = "Err(MissingMainHeader)"

\* C13 (as claimed): a modern stream that ends without an End header fails
\* with Error::MissingEndHeader.
C13_MissingEndHeader ==
    (pc = "done" /\ file \in TruncatedStreams) =>
        result = "Err(MissingEndHeader)"

\* How many of the headers parsed so far have the type type_of.
Count(type_of) == Cardinality({i \in 1..Len(seen) : seen[i] = type_of})

\* C14 (as claimed): when the parse returns Archive::Five, the headers it
\* consumed held exactly one Main header and exactly one End header.
C14_OneMainOneEnd ==
    result = "Ok(Five)" =>
        /\ Count(HeaderType_MainArchive) = 1
        /\ Count(HeaderType_EndOfArchive) = 1

\* C15 (as claimed): a GeneralHeader whose flags hold a bit outside the
\* seven defined header flags makes the parse return Error::InvalidBitFlag
\* with the offending integer.
C15_HeaderFlagsRejected ==
    (pc = "done" /\ file \in BadHeaderFlagStreams) =>
        /\ result = "Err(InvalidBitFlag Header)"
        /\ \E fl \in UndefinedHeaderFlags :
              /\ file = FlaggedStream(HeaderType_MainArchive, fl, 0)
              /\ error_flag = <<Bits(fl, 16)>>

\* C16: an undefined bit in the archive flags of a Main header, the file
\* flags of a File header, the end flags of an End header or the flags of a
\* Time record makes the parse fail with InvalidBitFlag of the name
\* "Archive", "File", "End Of Archive" or "File Time" and the offending
\* integer, and the header that holds it is not recorded.
C16_TypedFlagsRejected ==
    \A b \in BadTypedFlags :
        (pc = "done" /\ file = b.stream) =>
            /\ result = b.status
            /\ error_flag = <<Bits(b.flag, 16)>>
            /\ Len(main_archive) = b.mains
            /\ files = <<>>
            /\ end_of_archive = <<>>

\* C16 witness: the parse has ended on the Time record with flags 0x23.
C16_Witness ==
    /\ pc = "done"
    /\ result = "Err(InvalidBitFlag File Time)"
    /\ error_flag = <<Bits(35, 16)>>
    /\ main_archive # <<>>

\* The fields of a general header as the bytes at file offset p spell them:
\* crc32 (4 bytes), then the vints size, type and flags, then the vint
\* extra_area_size when flag 0x01 is set, then the vint data_size when flag
\* 0x02 is set; end is the offset after the last field.
VintAt(f, p) == VintSum(f, p, FileVintLen(f, p))

AfterVint(f, p) == p + FileVintLen(f, p)

GeneralLayout(f, p) ==
    LET at_size == p + 4
        at_type == AfterVint(f, at_size)
        at_flags == AfterVint(f, at_type)
        flags == VintAt(f, at_flags)
        at_extra == AfterVint(f, at_flags)
        at_data == IF 0 \in flags THEN AfterVint(f, at_extra) ELSE at_extra
    IN  [crc32 |-> LittleEndian(f, p, 4),
         size |-> VintAt(f, at_size),
         type_of |-> ToNat(VintAt(f, at_type) \cap 0..7),
         flags |-> flags,
         extra_area_size |-> IF 0 \in flags THEN VintAt(f, at_extra) ELSE {},
         data_size |-> IF 1 \in flags THEN VintAt(f, at_data) ELSE {},
         end |-> IF 1 \in flags THEN AfterVint(f, at_data) ELSE at_data]

\* C17: GeneralHeader::parse reads crc32, size, type and flags in this
\* order, then extra_area_size exactly when the ExtraArea flag is set, then
\* data_size exactly when the DataArea flag is set; a field whose flag is
\* clear consumes no bytes and is reported as 0.
C17_GeneralOptionalFields ==
    (is_v_5_0 /\ general.status = "ok" /\ general.p1 <= Len(file)) =>
        LET want == GeneralLayout(file, general.p0)
        IN  /\ general.v.crc32 = want.crc32
            /\ general.v.size = want.size
            /\ general.v.type_of = want.type_of
            /\ general.v.flags = want.flags
            /\ general.v.extra_area_size = want.extra_area_size
            /\ general.v.data_size = want.data_size
            /\ general.p1 = want.end

\* C17 witness: a general header with both optional fields, of different
\* values, read across the end of the window.
C17_Witness ==
    /\ is_v_5_0 /\ general.status = "ok" /\ general.p1 <= Len(file)
    /\ general.v.flags = {0, 1}
    /\ general.v.extra_area_size # general.v.data_size
    /\ general.p0 < BUFFER_SIZE /\ general.p1 > BUFFER_SIZE

\* The states right after a File header has been parsed.
JustParsedFile ==
    /\ pc = "headers5" /\ seen # <<>>
    /\ seen[Len(seen)] = HeaderType_File

\* The offset after the last field of the header that starts at p: the
\* size field counts the bytes from the type field to the end of the extra
\* area.
HeaderEnd(f, p) == AfterVint(f, p + 4) + ToNat(VintAt(f, p + 4))

\* C18: for a File header with the DataArea flag, data_area is the file
\* offset right after the header's last field, and when the parse of the
\* header returns the reader is at data_area + data_size.
C18_DataRegionRecorded ==
    (JustParsedFile /\ general.p1 <= Len(file)
                    /\ HeaderFlags_DATA_AREA \in general.v.flags) =>
        LET header == files[Len(files)]
        IN  /\ header.data_area = <<HeaderEnd(file, general.p0)>>
            /\ get_seek_position(Rd)
                  = header.data_area[1] + ToNat(header.general_header.data_size)

\* C18 witness: the data area of a File header read across the window end
\* begins in one window and ends beyond it.
C18_Witness ==
    /\ JustParsedFile /\ general.p0 < BUFFER_SIZE
    /\ HeaderFlags_DATA_AREA \in general.v.flags
    /\ files[Len(files)].data_area[1] > BUFFER_SIZE
    /\ files[Len(files)].extra_area # <<>>
    /\ get_seek_position(Rd) > files[Len(files)].data_area[1]
    /\ get_seek_position(Rd) < Len(file)

\* C19: in every successful modern parse, the data region of every File
\* header lies inside the file.
C19_DataRegionsInsideFile ==
    (pc = "done" /\ result = "Ok(Five)") =>
        \A i \in 1..Len(files) :
            files[i].data_area # <<>> =>
                files[i].data_area[1] + ToNat(files[i].general_header.data_size)
                    <= Len(file)

\* The bytes of the data region of a File header, as the file holds them.
DataRegion(f, header) ==
    IF header.data_area = <<>> THEN <<>>
    ELSE SubSeq(f, header.data_area[1] + 1,
                header.data_area[1] + ToNat(header.general_header.data_size))

\* C20: FileArchiveHeader::read returns exactly the bytes of the entry's
\* data region, for sizes below and above the window size and whatever the
\* window held before the call; an entry without a data region reads as
\* empty.
C20_ReadRoundTrip ==
    (pc = "read" /\ file \in TextStreams) =>
        /\ contents.status = "ok"
        /\ contents.v = DataRegion(file, files[contents.entry])

(***************************************************************************)
(* Properties of the extra area and of the header types.                   *)
(***************************************************************************)
\* The timestamp a Time record of these flags holds for slot k.
TimeOf(flags, k) ==
    IF ~HasBit(flags, k) THEN <<>>
    ELSE <<Bits(IF HasBit(flags, FileTimeFlags_FORMAT_UNIX_TIME)
                THEN UnixSeconds[k] ELSE WindowsSeconds[k], 31)>>

C22_WindowsTimeNormalisation ==
    (pc \in {"done", "read"} /\ file \in TickStreams) =>
        LET k == CHOOSE x \in DOMAIN EdgeTicks : TickStream(x) = file
        IN  /\ result = "Ok(Five)"
            /\ Len(files) = 1
            /\ Len(files[1].extra_area) = 1
            /\ Len(files[1].extra_area[1]) = 1
            /\ Len(files[1].extra_area[1][1].modification) = 1
            /\ [negative |-> FALSE,
                magnitude |-> files[1].extra_area[1][1].modification[1]]
                  = EdgeSeconds[k]

\* C23: a header whose decoded type is outside 1..5, also 0 and values
\* above 255 whose low byte is in 1..5, makes Archive::parse fail with the
\* invalid-discriminant error; it is never dispatched as a header of a
\* known type.
C23_UnknownTypeIsError ==
    (pc = "done" /\ file \in UnknownTypeStreams) =>
        result = "Err(NumEnumHeaderType)"

\* C24: a Service header between the Main and the End header is consumed
\* with its data area and is not added to files; the parse goes on to the
\* End header and succeeds.
C24_ServiceConsumed ==
    (pc = "done" /\ file \in ServiceStreams) =>
        /\ result = "Ok(Five)"
        /\ \A i \in 1..Len(files) :
              files[i].general_header.type_of = HeaderType_File
        /\ get_seek_position(Rd) = Len(file)

\* C26: on a legacy stream (signature, Archive header, File headers with
\* their packed data, then a Terminator header or the end of the stream)
\* the header loop stops and Archive::parse returns the legacy variant.
C26_LegacyTerminates ==
    (pc = "done" /\ file \in LegacyStreams) => result = "Ok(Four)"

\* The states right after a Main, File or End header has been parsed.
JustParsedTyped ==
    /\ seen # <<>>
    /\ \/ pc = "headers5"
       \/ pc = "done" /\ result \in {"Ok(Five)", "Err(MissingMainHeader)"}

\* C27: after each typed header (Main, File, End) whose general header
\* carries DataArea, the reader stands data_size bytes after the end of the
\* header, where the next general header starts.
C27_DataAreaAdvance ==
    (JustParsedTyped /\ general.p1 <= Len(file)
                     /\ HeaderFlags_DATA_AREA \in general.v.flags
                     /\ Readable(general.v.data_size)) =>
        get_seek_position(Rd)
            = HeaderEnd(file, general.p0) + ToNat(general.v.data_size)

\* C28: after seek_to(a) the index and last_read_amount are 0 and the
\* reported position is a, and the next read returns the file bytes from
\* offset a, not bytes the window held before the seek.
C28_SeekToInvalidates ==
    /\ (op.name = "seek_to") =>
          /\ index = 0
          /\ last_read_amount = 0
          /\ get_seek_position(Rd) = op.arg
    /\ (op.name = "read_after_seek" /\ op.p0 + op.arg <= Len(file)) =>
          /\ op.status = "ok"
          /\ op.v = SubSeq(file, op.p0 + 1, op.p0 + op.arg)

\* C29: next_vint and extract_vint decode an encoding of any length, also
\* of 10 and more bytes: they stop at the first byte without the
\* continuation bit and return a value, without failure or abort.
C29_NoLengthCap ==
    (op.name = "next_vint" /\ OpInFile) =>
        LET n == FileVintLen(file, op.p0)
        IN  /\ op.status = "ok"
            /\ get_seek_position(Rd) = op.p0 + n
            /\ extract_vint(SubSeq(file, op.p0 + 1, Len(file)),
                            overflow_checks).status = "ok"

\* What the Time record of these flags decodes to.
TimeItem(flags) ==
    [modification |-> TimeOf(flags, 1), creation |-> TimeOf(flags, 2),
     last_access |-> TimeOf(flags, 3)]

\* The records an extra area is specified to yield: its Time records in
\* their order, each as it decodes when it stands alone.
RECURSIVE TimeItems(_)
TimeItems(area) ==
    IF area = <<>> THEN <<>>
    ELSE (IF Head(area).time THEN <<TimeItem(Head(area).n)>> ELSE <<>>)
         \o TimeItems(Tail(area))

\* C30: the extra area is a run of records (size, type, data) whose size
\* counts the bytes from the type on; a record of an unknown type is
\* skipped to its end, a Time record decodes the same whether or not
\* unknown records stand before it, the scan ends at the end of the area,
\* and an empty extra area yields no records.
C30_ExtraAreaFraming ==
    (pc = "done" /\ file \in FramedStreams) =>
        LET area == CHOOSE x \in FramedAreas : FramedStream(x) = file
        IN  /\ result = "Ok(Five)"
            /\ Len(files) = 1
            /\ files[1].extra_area = <<TimeItems(area)>>
            /\ parse_extra_area(AreaBytes(area), overflow_checks)
                  = [status |-> "ok", v |-> TimeItems(area)]

\* C30 witness: a Time record between unknown records, one of them with a
\* two-byte type, is the only record of the file.
C30_Witness ==
    /\ pc = "done" /\ result = "Ok(Five)"
    /\ file = FramedStream(<<Unknown(2), Unknown(3), Time(14), Unknown(1)>>)
    /\ files[1].extra_area = << <<TimeItem(14)>> >>
    /\ get_seek_position(Rd) = Len(file)

\* The local file header of a zip file with the given method and contents
\* stands at the offset that was read.
ZipEntryOf(method, text) == file = ZipFile(contents.entry, method, text)

\* C25: CentralDirHeader::read returns the stored bytes for method 0 and
\* the inflated bytes for method 8; for every other defined method it
\* returns the unsupported-compression error and does not abort.
C25_ReadByCompression ==
    (pc = "read" /\ file \in ZipFiles) =>
        \A method \in CompressionType_all, text \in ZipTexts :
            ZipEntryOf(method, text) =>
                IF method \in {CompressionType_None, CompressionType_Deflate}
                THEN contents.status = "ok" /\ contents.v = text
                ELSE contents.status = "Err(UnsupportedCompression)"

\* C31: a Time record with UnixNanoSuffix carries one 4-byte suffix per
\* present timestamp; the parser reads no byte beyond the record or the
\* extra area and the record yields its Time entry, also as the last
\* record of the extra area.
C31_NanoSuffixes ==
    (pc = "done" /\ file \in NanoStreams) =>
        LET flags == CHOOSE x \in NanoFlagCombos :
                        \E last \in BOOLEAN : NanoStream(x, last) = file
        IN  /\ result = "Ok(Five)"
            /\ Len(files) = 1
            /\ files[1].extra_area = << <<TimeItem(flags)>> >>

\* The last header of the legacy loop began inside the file and its parse
\* returned a header or an error: its type byte is the third byte of the
\* header.
LegacyHeaderRead ==
    /\ ~is_v_5_0 /\ general.status \notin {"none", "panic"}
    /\ general.p0 + 7 <= Len(file)

TypeByte == file[general.p0 + 3]

\* C32 as stated: 0x73 = MarkBlock, 0x74 = Archive, 0x75 = File, ...,
\* 0x7C = Terminator, and every other type byte fails with the legacy
\* invalid-discriminant error.
C32_LegacyTypeTable ==
    LegacyHeaderRead =>
        IF TypeByte \in 115..124
        THEN /\ general.status # "Err(NumEnumHeaderType4)"
             /\ general.status = "ok" =>
                   HeaderType4_0_try_from(general.v.type_of)
                       = <<HeaderType4_0_variants[TypeByte - 114]>>
        ELSE general.status = "Err(NumEnumHeaderType4)"

\* C32 amended: the type byte 0x72 decodes to MarkBlock, 0x73 to Archive,
\* 0x74 to File, 0x75 to OldComment, 0x76 to OldAuthInfo, 0x77 to
\* OldSubBlock, 0x78 to OldRecoveryRecord, 0x79 to OldAuthInfo2, 0x7A to
\* SubBlock and 0x7B to Terminator; every other byte fails with the legacy
\* invalid-discriminant error.
C32_LegacyTypeDecoding ==
    LegacyHeaderRead =>
        IF TypeByte \in 114..123
        THEN /\ general.status
                   \in {"ok", "Err(InvalidBitFlag Header 4)"}
             /\ general.status = "ok" => general.v.type_of = TypeByte
             /\ HeaderType4_0_try_from(TypeByte)
                   = <<HeaderType4_0_variants[TypeByte - 113]>>
             /\ (TypeByte = 114) =>
                   HeaderType4_0_try_from(TypeByte) = <<"MarkBlock">>
             /\ (TypeByte = 115) =>
                   HeaderType4_0_try_from(TypeByte) = <<"Archive">>
             /\ (TypeByte = 116) =>
                   HeaderType4_0_try_from(TypeByte) = <<"File">>
             /\ (TypeByte = 123) =>
                   HeaderType4_0_try_from(TypeByte) = <<"Terminator">>
        ELSE /\ general.status = "Err(NumEnumHeaderType4)"
             /\ pc = "done" /\ result = "Err(NumEnumHeaderType4)"

\* C32 witness: a header of type byte 0x7B has been decoded as Terminator.
C32_Witness ==
    /\ LegacyHeaderRead /\ file \in LegacyTypeStreams
    /\ TypeByte = 123 /\ general.status = "ok"
    /\ HeaderType4_0_try_from(general.v.type_of) = <<"Terminator">>

\* The raw 16-bit flags field of the last legacy header, from the file.
RawFlags == LittleEndian(file, general.p0 + 3, 2)

\* C33: a File header reports the dictionary (f >> 5) & 7 of its raw flags
\* f and validates the flags with bits 5-7 cleared; a header of another
\* type reports no dictionary and validates the raw flags.
C33_LegacyDictionary ==
    LegacyHeaderRead =>
        LET validated == IF TypeByte = HeaderType4_0_File
                         THEN RawFlags \ {5, 6, 7} ELSE RawFlags
        IN  /\ general.status = "Err(InvalidBitFlag Header 4)" =>
                  ~(validated \subseteq HeaderFlags4_all)
            /\ general.status = "ok" =>
                  /\ general.v.flags = validated
                  /\ general.v.dictionary
                        = IF TypeByte = HeaderType4_0_File
                          THEN <<{b - 5 : b \in RawFlags \cap {5, 6, 7}}>>
                          ELSE <<>>

\* C34: the add-size field is read exactly when bit 0x8000 of the raw
\* flags is set and is four bytes wide: the header then takes 11 bytes,
\* and 7 bytes without the bit.
C34_LegacyAddSize ==
    (LegacyHeaderRead /\ general.status = "ok") =>
        IF 15 \in RawFlags
        THEN /\ general.p1 = general.p0 + 11
             /\ general.v.extra_area_size
                   = LittleEndian(file, general.p0 + 7, 4)
        ELSE /\ general.p1 = general.p0 + 7
             /\ general.v.extra_area_size = {}

\* The states right after the File arm of the legacy loop.
JustParsedLegacyFile ==
    /\ pc = "headers4" /\ general.status = "ok"
    /\ general.v.type_of = HeaderType4_0_File

\* C35: after a legacy File block the reader stands at the start of the
\* tail + 25 + name-length + packed-size, for a block that lies inside the
\* file.
C35_LegacyFileCursor ==
    LET name_length == ToNat(LittleEndian(file, general.p1 + 19, 2))
        pack_size == ToNat(LittleEndian(file, general.p1, 4))
    IN  (/\ JustParsedLegacyFile
         /\ general.p1 + 25 <= Len(file)
         /\ general.p1 + 25 + name_length + pack_size <= Len(file)) =>
            get_seek_position(Rd)
                = general.p1 + 25 + name_length + pack_size

\* C38: the signature loop ends on every file; a full window without a
\* match moves the file offset forward by BUFFER_SIZE - 6 and the loop goes
\* on, and a read of fewer than BUFFER_SIZE bytes without a match ends it.
C38_SearchTerminates ==
    /\ <>(pc # "search")
    /\ [][pc = "search" =>
            /\ (pc' = "search") =>
                  /\ last_read_amount' = BUFFER_SIZE
                  /\ fpos' = fpos + BUFFER_SIZE - 6
            /\ (pc' = "done") =>
                  /\ last_read_amount' < BUFFER_SIZE
                  /\ fpos' = Len(file)
            /\ (last_read_amount' < BUFFER_SIZE) => pc' # "search"]_vars

\* C38 witness: the loop has ended in its third window, on a short read.
C38_Witness ==
    /\ pc = "done" /\ sig_at = -1
    /\ fpos = Len(file) /\ Len(file) > 2 * BUFFER_SIZE - 12

\* C39: a signature position the loop reports lies in the bytes the last
\* read delivered, position + signature length <= last_read_amount, and
\* the file holds a signature.
C39_MatchInFileBytes ==
    (pc = "found") =>
        /\ scan + SigLen(is_v_5_0) <= last_read_amount
        /\ FirstSignatureInFile(file) # -1

(***************************************************************************)
(* Properties of the zip archive, checked under SpecArchive.               *)
(***************************************************************************)
\* The offsets of the file f at which the signature sig begins.
SigOffsets(f, sig) == {s \in 0..Len(f) : FileSigAt(f, s, sig)}

\* The k-th of them in increasing order.
KthOffset(f, sig, k) ==
    CHOOSE s \in SigOffsets(f, sig) :
        Cardinality({x \in SigOffsets(f, sig) : x < s}) = k - 1

\* C36: Archive::open parses the end of central directory record at the
\* first offset of the file where its signature begins, and fails with
\* MissingEndHeader when the file holds no such signature.
C36_EndRecordFound ==
    (pc # "zip") =>
        IF SigOffsets(file, END_CENTRAL_DIR_SIG) = {}
        THEN result = "Err(MissingEndHeader)" /\ end_header = <<>>
        ELSE LET s == KthOffset(file, END_CENTRAL_DIR_SIG, 1)
                 n == ToNat(LittleEndian(file, s + 20, 2))
             IN  /\ end_header # <<>>
                 /\ end_header[1].total_record_count
                       = LittleEndian(file, s + 10, 2)
                 /\ end_header[1].size_of = LittleEndian(file, s + 12, 4)
                 /\ end_header[1].curr_offset = LittleEndian(file, s + 16, 4)
                 /\ end_header[1].comment = SubSeq(file, s + 23, s + 22 + n)

\* The end of the central directory record that begins at offset s.
RecordEnd(f, s) ==
    s + CENTRAL_DIR_SIZE_KNOWN + ToNat(LittleEndian(f, s + 28, 2))
      + ToNat(LittleEndian(f, s + 30, 2)) + ToNat(LittleEndian(f, s + 32, 2))

\* The cached record i is the one at the i-th central signature.
CachedInOrder(i) ==
    LET s == KthOffset(file, CENTRAL_DIR_SIG, i)
    IN  /\ file_cache.files[i].file_name
              = SubSeq(file, s + 47,
                       s + 46 + ToNat(LittleEndian(file, s + 28, 2)))
        /\ file_cache.files[i].relative_offset = LittleEndian(file, s + 42, 4)

\* C37: the capacity of the cache is total_record_count; the cache holds
\* the central directory records in increasing offset order, each once,
\* and never more than total_record_count; last_seek_pos is the end of the
\* last one; find_next yields the record it caches; list_files returns the
\* cache, and a second list_files returns the same and leaves the cache as
\* it is.
C37_EntryCache ==
    /\ [](pc = "open" =>
            /\ file_cache.capacity = ToNat(end_header[1].total_record_count)
            /\ Len(file_cache.files) <= ToNat(end_header[1].total_record_count)
            /\ Len(file_cache.files)
                  <= Cardinality(SigOffsets(file, CENTRAL_DIR_SIG))
            /\ \A i \in 1..Len(file_cache.files) : CachedInOrder(i)
            /\ file_cache.files # <<>> =>
                  file_cache.last_seek_pos
                      = RecordEnd(file, KthOffset(file, CENTRAL_DIR_SIG,
                                                  Len(file_cache.files)))
            /\ (op.name = "find_next" /\ op.v # <<>>) =>
                  op.v[1] = file_cache.files[Len(file_cache.files)]
            /\ (op.name = "list_files" /\ op.status = "ok") =>
                  op.v = file_cache.files)
    /\ [][(pc = "open" /\ op.name = "list_files" /\ op'.name = "list_files"
             /\ nops' = nops + 1) =>
               (op'.v = op.v /\ file_cache' = file_cache)]_vars
    /\ [][(pc = "open" /\ is_fully_cached(file_cache)
             /\ op'.name = "find_next" /\ nops' = nops + 1) =>
               op'.v = <<>>]_vars

\* The cache after k records were yielded with no read in between.
RECURSIVE Enumerate(_, _, _)
Enumerate(f, capacity, k) ==
    IF k = 0 THEN [FileReaderCache_default EXCEPT !.capacity = capacity]
    ELSE find_next(Enumerate(f, capacity, k - 1), init_reader, f).cache

\* C40: a read of a cached entry leaves the cache and last_seek_pos as they
\* are, and with reads between the calls the cache holds what the same
\* number of find_next calls yields without them.
C40_ReadsKeepEnumeration ==
    /\ [](pc = "open" =>
            file_cache = Enumerate(file, file_cache.capacity,
                                   Len(file_cache.files)))
    /\ [][(op'.name = "read" /\ nops' = nops + 1) =>
               file_cache' = file_cache]_vars

\* C40 witness: a second record has been yielded after a read of the first.
C40_Witness ==
    /\ pc = "open" /\ seen = <<"find_next", "read", "find_next">>
    /\ op.name = "find_next" /\ op.v # <<>> /\ Len(file_cache.files) = 2
    /\ file_cache.files[1].file_name # file_cache.files[2].file_name

====
